---- MODULE Spec2Model ----
(***************************************************************************)
(* Tool-use conversation engine of the customer-support assistant:         *)
(* the orchestrator loop (CustomerSupportAgent.process_message and the     *)
(* two stand-alone chat loops), the five session variants with their       *)
(* identity injection and tool bridges, the tool registry (execute_tool)   *)
(* and the mock store behind it.                                           *)
(*                                                                         *)
(* Text is a TLA+ string.  A JSON text produced by json.dumps is modelled  *)
(* by the object it encodes (json.dumps is injective on these objects).    *)
(* A Python value that can be a str or an int is a tagged record           *)
(* [t |-> "str"|"int", v |-> ...].                                         *)
(***************************************************************************)
EXTENDS Integers, Sequences, FiniteSets, TLC

VARIABLES
    variant,               \* which session class drives the conversation
    user_id,               \* the session's current user id
    conversation_history,  \* ordered list of messages
    mcp_tools,             \* catalog handed to the model
    connected,             \* transport connection state
    tools_cache,           \* the catalog a client keeps:
                           \* HTTPMCPClient.tools_cache, DirectToolExecutor.tools
    db,                    \* MockDatabase: users, transactions, issues
    file,                  \* contents of database.json
    pc,                    \* position inside send: idle / model / tools
    response,              \* content of the model response being processed
    block_idx,             \* index of the next block of response to visit
    tool_results,          \* ToolResult blocks collected in this round
    outcome,               \* how the last send ended
    sends,                 \* number of sends started in this session
    calls,                 \* number of model calls issued in this session
    send_text,             \* the text passed to the current send
    history_at_send,       \* history when the current send started
    model_calls,           \* log: one entry per model call of the current send
    bridge_calls,          \* log: one entry per tool call of the current send
    last_op,               \* the operation that made the last step
    tool_call,             \* registry: the last execute_tool call
    tool_reply,            \* registry: what that call returned
    catalog,               \* the tool definitions the server side publishes
    list_requests,         \* catalog requests that went over the transport
    listed,                \* log: one entry per list_tools call of a client
    pipe                   \* stdio transport: the stdio context and the
                           \* client session held by the owner

vars == <<variant, user_id, conversation_history, mcp_tools, connected,
          tools_cache, db, file, pc, response, block_idx, tool_results,
          outcome, sends, calls, send_text, history_at_send, model_calls,
          bridge_calls, last_op, tool_call, tool_reply, catalog,
          list_requests, listed, pipe>>

---------------------------------------------------------------------------
(* Bounds of the exploration *)

MaxSends == 2        \* sends per session
MaxModelCalls == 3   \* model calls per session
MaxIssues == 1       \* issues reported to the registry driven directly
MaxLimit == 4        \* largest size of the limit of a transaction query
MaxLists == 3        \* list_tools calls on one client

---------------------------------------------------------------------------
(* Values *)

S(x) == [t |-> "str", v |-> x]
I(n) == [t |-> "int", v |-> n]

NoArgs == <<>>

Last(seq) == seq[Len(seq)]

\* d[k] = v, as Python's  d[k] = v  on a dict
SetItem(d, k, v) == [x \in (DOMAIN d) \cup {k} |-> IF x = k THEN v ELSE d[x]]

Users == {"user_001", "user_002"}

\* Python's  sep.join(parts)
RECURSIVE Join(_, _)
Join(sep, parts) ==
    IF parts = <<>> THEN ""
    ELSE IF Len(parts) = 1 THEN parts[1]
    ELSE parts[1] \o sep \o Join(sep, Tail(parts))

\* f"{n:03d}" for n >= 0
Fmt03d(n) ==
    IF n < 10 THEN "00" \o ToString(n)
    ELSE IF n < 100 THEN "0" \o ToString(n)
    ELSE ToString(n)

\* f"{x:.2f}" for an amount x >= 0 held in cents
Fmt2f(cents) ==
    LET frac == cents % 100
    IN  ToString(cents \div 100) \o "." \o
        (IF frac < 10 THEN "0" ELSE "") \o ToString(frac)

---------------------------------------------------------------------------
(* Mock store: mcp_server/mock_data.py *)

DefaultUsers ==
    [u \in Users |->
        IF u = "user_001"
        THEN [user_id |-> "user_001", name |-> "John Doe",
              email |-> "john.doe@example.com",
              password |-> "hashed_password_123",
              address |-> "123 Main St, Springfield, IL 62701",
              account_balance |-> 542050, card_status |-> "active",
              card_number |-> "**** **** **** 1234", phone |-> "+1-555-0123"]
        ELSE [user_id |-> "user_002", name |-> "Jane Smith",
              email |-> "jane.smith@example.com",
              password |-> "hashed_password_456",
              address |-> "456 Oak Ave, Portland, OR 97201",
              account_balance |-> 1275025, card_status |-> "active",
              card_number |-> "**** **** **** 5678", phone |-> "+1-555-0456"]]

DefaultTransactions ==
    [u \in Users |->
        IF u = "user_001"
        THEN << [id |-> "txn_001", description |-> "Amazon Purchase",
                 amount |-> -8999, balance |-> 542050],
                [id |-> "txn_002", description |-> "Salary Deposit",
                 amount |-> 350000, balance |-> 551049],
                [id |-> "txn_003", description |-> "Electric Bill",
                 amount |-> -12550, balance |-> 201049] >>
        ELSE << [id |-> "txn_004", description |-> "Grocery Store",
                 amount |-> -15632, balance |-> 1275025] >>]

DefaultData ==
    [users |-> DefaultUsers, transactions |-> DefaultTransactions,
     issues |-> <<>>]

\* A store operation yields [ret |-> return value, db |-> store after,
\* saved |-> TRUE when save_data() ran].
change_password(d, uid, new_password) ==
    IF uid \in DOMAIN d.users
    THEN [ret |-> TRUE, saved |-> TRUE,
          db |-> [d EXCEPT !.users[uid].password = "hashed_" \o new_password]]
    ELSE [ret |-> FALSE, saved |-> FALSE, db |-> d]

None == [none |-> TRUE]

get_account_balance(d, uid) ==
    [ret |-> IF uid \in DOMAIN d.users
             THEN I(d.users[uid].account_balance) ELSE None,
     saved |-> FALSE, db |-> d]

\* mutant: the new address is not written to the data file
update_address_not_saved(d, uid, new_address) ==
    IF uid \in DOMAIN d.users
    THEN [ret |-> TRUE, saved |-> FALSE,
          db |-> [d EXCEPT !.users[uid].address = new_address]]
    ELSE [ret |-> FALSE, saved |-> FALSE, db |-> d]

update_address(d, uid, new_address) ==
    IF uid \in DOMAIN d.users
    THEN [ret |-> TRUE, saved |-> TRUE,
          db |-> [d EXCEPT !.users[uid].address = new_address]]
    ELSE [ret |-> FALSE, saved |-> FALSE, db |-> d]

\* Python's  seq[:limit]
SliceTo(seq, limit) ==
    LET n == Len(seq)
        stop == IF limit >= 0
                THEN (IF limit < n THEN limit ELSE n)
                ELSE (IF n + limit > 0 THEN n + limit ELSE 0)
    IN  SubSeq(seq, 1, stop)

\* mutant: the transactions handed out are taken off the user's list
get_recent_transactions_draining(d, uid, limit) ==
    [ret |-> IF uid \in DOMAIN d.transactions
             THEN SliceTo(d.transactions[uid], limit) ELSE <<>>,
     saved |-> FALSE,
     db |-> IF uid \in DOMAIN d.transactions
            THEN [d EXCEPT !.transactions[uid] =
                      SubSeq(d.transactions[uid],
                             Len(SliceTo(d.transactions[uid], limit)) + 1,
                             Len(d.transactions[uid]))]
            ELSE d]

get_recent_transactions(d, uid, limit) ==
    [ret |-> SliceTo(IF uid \in DOMAIN d.transactions
                     THEN d.transactions[uid] ELSE <<>>, limit),
     saved |-> FALSE, db |-> d]

\* mutant: a second call switches the card on again
deactivate_card_toggling(d, uid) ==
    IF uid \in DOMAIN d.users
    THEN [ret |-> TRUE, saved |-> TRUE,
          db |-> [d EXCEPT !.users[uid].card_status =
                               IF @ = "active" THEN "deactivated"
                               ELSE "active"]]
    ELSE [ret |-> FALSE, saved |-> FALSE, db |-> d]

deactivate_card(d, uid) ==
    IF uid \in DOMAIN d.users
    THEN [ret |-> TRUE, saved |-> TRUE,
          db |-> [d EXCEPT !.users[uid].card_status = "deactivated"]]
    ELSE [ret |-> FALSE, saved |-> FALSE, db |-> d]

Priorities == {"low", "medium", "high"}

\* mutant: tickets are numbered per user
report_issue_per_user(d, uid, issue_description, priority) ==
    LET own == SelectSeq(d.issues, LAMBDA i : i.user_id = uid)
        issue_id == "issue_" \o Fmt03d(Len(own) + 1)
        issue == [issue_id |-> issue_id, user_id |-> uid,
                  description |-> issue_description, status |-> "open",
                  priority |-> priority]
    IN  [ret |-> issue_id, saved |-> TRUE,
         db |-> [d EXCEPT !.issues = Append(@, issue)]]

report_issue(d, uid, issue_description, priority) ==
    LET issue_id == "issue_" \o Fmt03d(Len(d.issues) + 1)
        issue == [issue_id |-> issue_id, user_id |-> uid,
                  description |-> issue_description, status |-> "open",
                  priority |-> priority]
    IN  [ret |-> issue_id, saved |-> TRUE,
         db |-> [d EXCEPT !.issues = Append(@, issue)]]

get_account_details(d, uid) ==
    [ret |-> IF uid \in DOMAIN d.users
             THEN LET user == d.users[uid]
                  IN  [name |-> user.name, email |-> user.email,
                       address |-> user.address, phone |-> user.phone,
                       account_balance |-> user.account_balance,
                       card_status |-> user.card_status,
                       card_number |-> user.card_number]
             ELSE None,
     saved |-> FALSE, db |-> d]

\* keys of the users dict in insertion order
UserKeys == <<"user_001", "user_002">>

switch_user(d, new_user_id) ==
    [ret |-> IF new_user_id \in DOMAIN d.users
             THEN [success |-> TRUE, user_id |-> new_user_id,
                   user_name |-> d.users[new_user_id].name,
                   message |-> "Switched to user: " \o
                               d.users[new_user_id].name \o
                               " (" \o new_user_id \o ")"]
             ELSE [success |-> FALSE,
                   message |-> "User " \o new_user_id \o
                               " not found. Available users: " \o
                               Join(", ", UserKeys)],
     saved |-> FALSE, db |-> d]

---------------------------------------------------------------------------
(* Tool registry: mcp_server/tools.py *)

\* The pydantic argument models: field name -> [type, required, default]
Req(ty) == [type |-> ty, required |-> TRUE, default |-> None]
Opt(ty, dflt) == [type |-> ty, required |-> FALSE, default |-> dflt]

ChangePasswordArgs ==
    [user_id |-> Req("str"), new_password |-> Req("str")]
GetAccountBalanceArgs == [user_id |-> Req("str")]
UpdateAddressArgs == [user_id |-> Req("str"), new_address |-> Req("str")]
GetRecentTransactionsArgs ==
    [user_id |-> Req("str"), limit |-> Opt("int", I(10))]
DeactivateCardArgs == [user_id |-> Req("str")]
ReportIssueArgs ==
    [user_id |-> Req("str"), issue_description |-> Req("str")]
GetAccountDetailsArgs == [user_id |-> Req("str")]

\* Strings that pydantic's lax mode reads as an int for an int field
IntStrings == [x \in {"2"} |-> 2]

\* Does value val pass a field of type ty?
FieldAccepts(ty, val) ==
    \/ val.t = ty
    \/ ty = "int" /\ val.t = "str" /\ val.v \in DOMAIN IntStrings

\* The value a field of type ty holds after validation of val
FieldValue(ty, val) ==
    IF ty = "int" /\ val.t = "str" THEN IntStrings[val.v] ELSE val.v

\* Model(**arguments): the fields that fail (missing or of the wrong type);
\* keys that are no field of the model are ignored.
BadFields(model, arguments) ==
    {f \in DOMAIN model :
        IF f \in DOMAIN arguments
        THEN ~FieldAccepts(model[f].type, arguments[f])
        ELSE model[f].required}

\* The validated model instance (only when BadFields is empty)
Parsed(model, arguments) ==
    [f \in DOMAIN model |->
        IF f \in DOMAIN arguments
        THEN FieldValue(model[f].type, arguments[f])
        ELSE model[f].default.v]

\* get_tool_definitions(): the catalog, in order
Tool(name, description, model) ==
    [name |-> name, description |-> description, inputSchema |-> model]

\* mutant: the catalog publishes get_account_details under another name
get_tool_definitions_renamed ==
    << Tool("change_password",
            "Change a user's password. Returns success status.",
            ChangePasswordArgs),
       Tool("get_account_balance",
            "Retrieve the current account balance for a user.",
            GetAccountBalanceArgs),
       Tool("update_address",
            "Update a user's address in the system.",
            UpdateAddressArgs),
       Tool("get_recent_transactions",
            "Retrieve recent transactions for a user's account.",
            GetRecentTransactionsArgs),
       Tool("deactivate_card",
            "Deactivate a user's card for security purposes.",
            DeactivateCardArgs),
       Tool("report_issue",
            "Report a customer support issue and create a ticket.",
            ReportIssueArgs),
       Tool("get_details",
            "Retrieve comprehensive account details for a user.",
            GetAccountDetailsArgs) >>

get_tool_definitions ==
    << Tool("change_password",
            "Change a user's password. Returns success status.",
            ChangePasswordArgs),
       Tool("get_account_balance",
            "Retrieve the current account balance for a user.",
            GetAccountBalanceArgs),
       Tool("update_address",
            "Update a user's address in the system.",
            UpdateAddressArgs),
       Tool("get_recent_transactions",
            "Retrieve recent transactions for a user's account.",
            GetRecentTransactionsArgs),
       Tool("deactivate_card",
            "Deactivate a user's card for security purposes.",
            DeactivateCardArgs),
       Tool("report_issue",
            "Report a customer support issue and create a ticket.",
            ReportIssueArgs),
       Tool("get_account_details",
            "Retrieve comprehensive account details for a user.",
            GetAccountDetailsArgs) >>

TextContent(text) == [type |-> "text", text |-> text]

\* The except branch of execute_tool; str(e) of a pydantic ValidationError
\* names every offending field.
ErrorResult(tool_name, fields) ==
    [success |-> FALSE, error |-> [validation_error |-> fields],
     message |-> "Failed to execute " \o tool_name]

\* One branch of execute_tool: validate, run the store operation, build result
Branch(tool_name, model, arguments, d, run(_), result(_)) ==
    IF BadFields(model, arguments) # {}
    THEN [content |-> <<TextContent(ErrorResult(tool_name,
                                      BadFields(model, arguments)))>>,
          db |-> d, saved |-> FALSE, raised |-> FALSE]
    ELSE LET Done(r) == [content |-> <<TextContent(result(r.ret))>>,
                         db |-> r.db, saved |-> r.saved, raised |-> FALSE]
         IN  Done(run(Parsed(model, arguments)))

\* (variant used to test C8: the else branch reports success)
UnknownToolResult_succeeding(tool_name) ==
    [success |-> TRUE, message |-> "Unknown tool: " \o tool_name]

\* the else branch of execute_tool
UnknownToolResult(tool_name) ==
    [success |-> FALSE, message |-> "Unknown tool: " \o tool_name]

\* execute_tool(tool_name, arguments) on store d; env carries what the
\* environment decides (the random priority of a new issue).
\* Yields [content |-> list of TextContent, db, saved, raised].
execute_tool(tool_name, arguments, d, env) ==
    IF tool_name = "change_password" THEN
        LET run(a) == change_password(d, a.user_id, a.new_password)
            result(success) ==
                [success |-> success,
                 message |-> IF success THEN "Password changed successfully"
                             ELSE "User not found"]
        IN  Branch(tool_name, ChangePasswordArgs, arguments, d, run, result)
    ELSE IF tool_name = "get_account_balance" THEN
        LET run(a) == get_account_balance(d, a.user_id)
            result(balance) ==
                [success |-> balance # None, balance |-> balance,
                 message |-> IF balance # None
                             THEN "Current balance: $" \o Fmt2f(balance.v)
                             ELSE "User not found"]
        IN  Branch(tool_name, GetAccountBalanceArgs, arguments, d, run, result)
    ELSE IF tool_name = "update_address" THEN
        LET run(a) == update_address(d, a.user_id, a.new_address)
            result(success) ==
                [success |-> success,
                 message |-> IF success THEN "Address updated successfully"
                             ELSE "User not found"]
        IN  Branch(tool_name, UpdateAddressArgs, arguments, d, run, result)
    ELSE IF tool_name = "get_recent_transactions" THEN
        LET run(a) == get_recent_transactions(d, a.user_id, a.limit)
            result(transactions) ==
                [success |-> TRUE, transactions |-> transactions,
                 count |-> Len(transactions)]
        IN  Branch(tool_name, GetRecentTransactionsArgs, arguments, d, run,
                   result)
    ELSE IF tool_name = "deactivate_card" THEN
        LET run(a) == deactivate_card(d, a.user_id)
            result(success) ==
                [success |-> success,
                 message |-> IF success THEN "Card deactivated successfully"
                             ELSE "User not found"]
        IN  Branch(tool_name, DeactivateCardArgs, arguments, d, run, result)
    ELSE IF tool_name = "report_issue" THEN
        LET run(a) == report_issue(d, a.user_id, a.issue_description,
                                   env.priority)
            result(issue_id) ==
                [success |-> TRUE, issue_id |-> issue_id,
                 message |-> "Issue reported successfully. Ticket ID: "
                             \o issue_id]
        IN  Branch(tool_name, ReportIssueArgs, arguments, d, run, result)
    ELSE IF tool_name = "get_account_details" THEN
        LET run(a) == get_account_details(d, a.user_id)
            result(details) ==
                [success |-> details # None, details |-> details,
                 message |-> IF details # None THEN "Account details retrieved"
                             ELSE "User not found"]
        IN  Branch(tool_name, GetAccountDetailsArgs, arguments, d, run, result)
    ELSE
        [content |-> <<TextContent(UnknownToolResult(tool_name))>>,
         db |-> d, saved |-> FALSE, raised |-> FALSE]

---------------------------------------------------------------------------
(* FastMCP server: mcp_server_fastmcp.py.  The library validates the       *)
(* arguments against the function's signature and answers an unknown tool  *)
(* or a validation failure with an error text of its own.                  *)

SwitchUserArgs == [new_user_id |-> Req("str")]

\* The tools the FastMCP server registers, in order of definition
fastmcp_tools ==
    << Tool("change_password",
            "Change a user's password. This change is permanent.",
            ChangePasswordArgs),
       Tool("get_account_balance",
            "Retrieve the current account balance for a user.",
            GetAccountBalanceArgs),
       Tool("update_address",
            "Update a user's address in the system. This change is permanent.",
            UpdateAddressArgs),
       Tool("get_recent_transactions",
            "Retrieve recent transactions for a user's account.",
            GetRecentTransactionsArgs),
       Tool("deactivate_card",
            "Deactivate a user's card for security purposes. This change is permanent.",
            DeactivateCardArgs),
       Tool("report_issue",
            "Report a customer support issue and create a ticket. The ticket is permanently stored.",
            ReportIssueArgs),
       Tool("get_account_details",
            "Retrieve comprehensive account details for a user, including any recent updates.",
            GetAccountDetailsArgs),
       Tool("switch_user",
            "Switch to a different user account.",
            SwitchUserArgs) >>

FastMCPError(tool_name, fields) ==
    [tool_error |-> tool_name, fields |-> fields]

FastBranch(tool_name, model, arguments, d, run(_), result(_)) ==
    IF BadFields(model, arguments) # {}
    THEN [content |-> <<TextContent(FastMCPError(tool_name,
                                      BadFields(model, arguments)))>>,
          db |-> d, saved |-> FALSE, raised |-> FALSE]
    ELSE LET Done(r) == [content |-> <<TextContent(result(r.ret))>>,
                         db |-> r.db, saved |-> r.saved, raised |-> FALSE]
         IN  Done(run(Parsed(model, arguments)))

fastmcp_tool(tool_name, arguments, d, env) ==
    IF tool_name = "change_password" THEN
        LET run(a) == change_password(d, a.user_id, a.new_password)
            result(success) ==
                [success |-> success,
                 message |-> IF success
                             THEN "Password changed successfully and persisted"
                             ELSE "User not found"]
        IN  FastBranch(tool_name, ChangePasswordArgs, arguments, d, run, result)
    ELSE IF tool_name = "get_account_balance" THEN
        LET run(a) == get_account_balance(d, a.user_id)
            result(balance) ==
                [success |-> balance # None, balance |-> balance,
                 message |-> IF balance # None
                             THEN "Current balance: $" \o Fmt2f(balance.v)
                             ELSE "User not found"]
        IN  FastBranch(tool_name, GetAccountBalanceArgs, arguments, d, run,
                       result)
    ELSE IF tool_name = "update_address" THEN
        LET run(a) == update_address(d, a.user_id, a.new_address)
            result(success) ==
                [success |-> success,
                 message |-> IF success
                             THEN "Address updated successfully and persisted"
                             ELSE "User not found"]
        IN  FastBranch(tool_name, UpdateAddressArgs, arguments, d, run, result)
    ELSE IF tool_name = "get_recent_transactions" THEN
        LET run(a) == get_recent_transactions(d, a.user_id, a.limit)
            result(transactions) ==
                [success |-> TRUE, transactions |-> transactions,
                 count |-> Len(transactions)]
        IN  FastBranch(tool_name, GetRecentTransactionsArgs, arguments, d, run,
                       result)
    ELSE IF tool_name = "deactivate_card" THEN
        LET run(a) == deactivate_card(d, a.user_id)
            result(success) ==
                [success |-> success,
                 message |-> IF success
                             THEN "Card deactivated successfully and persisted"
                             ELSE "User not found"]
        IN  FastBranch(tool_name, DeactivateCardArgs, arguments, d, run, result)
    ELSE IF tool_name = "report_issue" THEN
        LET run(a) == report_issue(d, a.user_id, a.issue_description,
                                   env.priority)
            result(issue_id) ==
                [success |-> TRUE, issue_id |-> issue_id,
                 message |-> "Issue reported successfully and stored. Ticket ID: "
                             \o issue_id]
        IN  FastBranch(tool_name, ReportIssueArgs, arguments, d, run, result)
    ELSE IF tool_name = "get_account_details" THEN
        LET run(a) == get_account_details(d, a.user_id)
            result(details) ==
                [success |-> details # None, details |-> details,
                 message |-> IF details # None
                             THEN "Account details retrieved (includes any updates)"
                             ELSE "User not found"]
        IN  FastBranch(tool_name, GetAccountDetailsArgs, arguments, d, run,
                       result)
    ELSE IF tool_name = "switch_user" THEN
        LET run(a) == switch_user(d, a.new_user_id)
            result(r) == r
        IN  FastBranch(tool_name, SwitchUserArgs, arguments, d, run, result)
    ELSE
        [content |-> <<TextContent(FastMCPError(tool_name, {}))>>,
         db |-> d, saved |-> FALSE, raised |-> FALSE]

---------------------------------------------------------------------------
(* Messages and content blocks *)

TextBlock(text) == [type |-> "text", text |-> text]
ToolUseBlock(id, name, input) ==
    [type |-> "tool_use", id |-> id, name |-> name, input |-> input]
\* mutant: the result does not echo the id of its tool_use block
ToolResultBlock_unmatched(tool_use_id, content) ==
    [type |-> "tool_result", tool_use_id |-> "", content |-> content]

ToolResultBlock(tool_use_id, content) ==
    [type |-> "tool_result", tool_use_id |-> tool_use_id, content |-> content]

\* The content of a message is a str or a list of blocks
Str(text) == [kind |-> "str", text |-> text]
List(blocks) == [kind |-> "list", blocks |-> blocks]

Message(role, content) == [role |-> role, content |-> content]

---------------------------------------------------------------------------
(* Transports.  env.transport is what the environment does to one request: *)
(* "ok", "no_request" (it fails before the server sees it: broken pipe,   *)
(* refused connection) or "no_reply" (the server runs the tool and the    *)
(* answer is lost: timeout, error status).                                *)

Variants == {"AgentSession", "SimpleAgentSession", "HTTPMCPAgentSession",
             "StdioMCPAgentSession", "FastMCPAgent"}

\* the variants whose transport is a connection to a child process
PipeVariants == {"AgentSession", "StdioMCPAgentSession", "FastMCPAgent"}

TransportOutcomes(v) ==
    IF v = "SimpleAgentSession" THEN {"ok", "no_request"}
    ELSE {"ok", "no_request", "no_reply"}

Reply(raised, error, content, d, saved) ==
    [raised |-> raised, error |-> error, content |-> content,
     db |-> d, saved |-> saved]

EmptyObject == [empty_object |-> TRUE]      \* the text "{}"
EmptyListRepr == [repr |-> "[]"]            \* str([])

\* mutant: the texts of all parts are joined
FirstText_joined(content, empty) ==
    IF content # <<>>
    THEN Join("", [i \in 1..Len(content) |-> content[i].text])
    ELSE empty

\* result[0].text  when the result has a part, else what the caller
\* substitutes for an empty result
FirstText(content, empty) ==
    IF content # <<>> THEN content[1].text ELSE empty

\* ClientSession.call_tool over the pipe, answered by the server's
\* call_tool handler (server.py) or by the FastMCP server
mcp_call_tool(fast, tool_name, arguments, d, env) ==
    IF env.transport = "no_request"
    THEN Reply(TRUE, "transport error", <<>>, d, FALSE)
    ELSE LET Answered(r) ==
                 IF env.transport = "no_reply"
                 THEN Reply(TRUE, "transport error", <<>>, r.db, r.saved)
                 ELSE Reply(FALSE, "", r.content, r.db, r.saved)
         IN  Answered(IF fast
                      THEN fastmcp_tool(tool_name, arguments, d, env)
                      ELSE execute_tool(tool_name, arguments, d, env))

\* SyncMCPClient.call_tool
SyncMCPClient_call_tool(tool_name, arguments, d, env, conn) ==
    IF ~conn
    THEN Reply(TRUE, "Not connected to MCP server. Call connect() first.",
               <<>>, d, FALSE)
    ELSE mcp_call_tool(FALSE, tool_name, arguments, d, env)

\* DirectToolExecutor.call_tool: yields the text in content
DirectToolExecutor_call_tool(tool_name, arguments, d, env) ==
    IF env.transport # "ok"
    THEN Reply(TRUE, "event loop error", <<>>, d, FALSE)
    ELSE LET Answered(r) ==
                 Reply(FALSE, "",
                       FirstText(r.content, EmptyListRepr),
                       r.db, r.saved)
         IN  Answered(execute_tool(tool_name, arguments, d, env))

\* mutant: the envelope repeats the success flag of the payload
execute_tool_endpoint_mirroring(name, arguments, d, env) ==
    LET Response(r) ==
            IF r.raised
            THEN [status |-> 500, body |-> [detail |-> "error"],
                  db |-> r.db, saved |-> r.saved]
            ELSE [status |-> 200,
                  body |-> [success |-> IF r.content # <<>>
                                        THEN r.content[1].text.success
                                        ELSE TRUE,
                            result |-> FirstText(r.content, EmptyObject)],
                  db |-> r.db, saved |-> r.saved]
    IN  Response(execute_tool(name, arguments, d, env))

\* execute_tool_endpoint of the HTTP server
execute_tool_endpoint(name, arguments, d, env) ==
    LET Response(r) ==
            IF r.raised
            THEN [status |-> 500, body |-> [detail |-> "error"],
                  db |-> r.db, saved |-> r.saved]
            ELSE [status |-> 200,
                  body |-> [success |-> TRUE,
                            result |-> FirstText(r.content, EmptyObject)],
                  db |-> r.db, saved |-> r.saved]
    IN  Response(execute_tool(name, arguments, d, env))

\* The dict the clients build in their except branch
ExceptionResult(tool_name, error) ==
    [success |-> FALSE, error |-> [exception |-> error],
     message |-> "Failed to execute " \o tool_name]

\* HTTPMCPClient.call_tool: yields the text in content, never raises
HTTPMCPClient_call_tool(tool_name, arguments, d, env) ==
    IF env.transport = "no_request"
    THEN Reply(FALSE, "", ExceptionResult(tool_name, "transport error"),
               d, FALSE)
    ELSE LET Answered(resp) ==
                 IF env.transport = "no_reply" \/ resp.status # 200
                 THEN Reply(FALSE, "",
                            ExceptionResult(tool_name, "transport error"),
                            resp.db, resp.saved)
                 ELSE Reply(FALSE, "", resp.body.result, resp.db, resp.saved)
         IN  Answered(execute_tool_endpoint(tool_name, arguments, d, env))

---------------------------------------------------------------------------
(* The tool callbacks of the session variants.  Each yields                *)
(* [arguments |-> the arguments handed to the bridge (the dict of the      *)
(*  ToolUse block, updated in place), raised, text, db, saved].            *)

Called(arguments, raised, text, d, saved) ==
    [arguments |-> arguments, raised |-> raised, text |-> text,
     db |-> d, saved |-> saved]

\* AgentSession._execute_tool
AgentSession_execute_tool(uid, tool_name, arguments, d, env, conn) ==
    LET Result(args, r) ==
            Called(args, FALSE,
                   IF r.raised THEN ExceptionResult(tool_name, r.error)
                   ELSE FirstText(r.content, EmptyListRepr),
                   r.db, r.saved)
        Call(args) ==
            Result(args, SyncMCPClient_call_tool(tool_name, args, d, env,
                                                 conn))
    IN  Call(IF "user_id" \notin DOMAIN arguments /\ uid # ""
             THEN SetItem(arguments, "user_id", S(uid))
             ELSE arguments)

\* SimpleAgentSession._execute_tool
SimpleAgentSession_execute_tool(uid, tool_name, arguments, d, env) ==
    LET Result(args, r) ==
            Called(args, FALSE,
                   IF r.raised THEN ExceptionResult(tool_name, r.error)
                   ELSE r.content,
                   r.db, r.saved)
        Call(args) ==
            Result(args, DirectToolExecutor_call_tool(tool_name, args, d, env))
    IN  Call(SetItem(arguments, "user_id", S(uid)))

\* MCPAgentSession._execute_tool of run_http_server.py
HTTPMCPAgentSession_execute_tool(uid, tool_name, arguments, d, env) ==
    LET Result(args, r) == Called(args, r.raised, r.content, r.db, r.saved)
        Call(args) ==
            Result(args, HTTPMCPClient_call_tool(tool_name, args, d, env))
    IN  Call(SetItem(arguments, "user_id", S(uid)))

\* A pipe whose session was closed fails every request
PipeEnv(env, conn) ==
    IF conn THEN env ELSE [env EXCEPT !.transport = "no_request"]

\* MCPAgentSession.call_mcp_tool of run_mcp.py
call_mcp_tool(uid, tool_name, arguments, d, env, conn) ==
    LET Result(args, r) ==
            Called(args, r.raised,
                   IF r.raised THEN EmptyObject
                   ELSE FirstText(r.content, EmptyObject),
                   r.db, r.saved)
        Call(args) ==
            Result(args, mcp_call_tool(FALSE, tool_name, args, d,
                                       PipeEnv(env, conn)))
    IN  Call(SetItem(arguments, "user_id", S(uid)))

\* mutant: the session's user id is filled in only when the model gave none
FastMCPAgent_call_tool_keeping_given(uid, tool_name, arguments, d, env, conn) ==
    LET Result(args, r) ==
            Called(args, FALSE,
                   IF r.raised
                   THEN [success |-> FALSE, error |-> [exception |-> r.error]]
                   ELSE FirstText(r.content, EmptyObject),
                   r.db, r.saved)
        Call(args) ==
            Result(args, mcp_call_tool(TRUE, tool_name, args, d,
                                       PipeEnv(env, conn)))
    IN  Call(IF "user_id" \in DOMAIN arguments THEN arguments
             ELSE SetItem(arguments, "user_id", S(uid)))

\* FastMCPAgent.call_tool
FastMCPAgent_call_tool(uid, tool_name, arguments, d, env, conn) ==
    LET Result(args, r) ==
            Called(args, FALSE,
                   IF r.raised
                   THEN [success |-> FALSE, error |-> [exception |-> r.error]]
                   ELSE FirstText(r.content, EmptyObject),
                   r.db, r.saved)
        Call(args) ==
            Result(args, mcp_call_tool(TRUE, tool_name, args, d,
                                       PipeEnv(env, conn)))
    IN  Call(SetItem(arguments, "user_id", S(uid)))

\* The callback the tool-use loop of variant v calls for one ToolUse block
ToolCallback(v, uid, tool_name, arguments, d, env, conn) ==
    IF v = "AgentSession"
    THEN AgentSession_execute_tool(uid, tool_name, arguments, d, env, conn)
    ELSE IF v = "SimpleAgentSession"
    THEN SimpleAgentSession_execute_tool(uid, tool_name, arguments, d, env)
    ELSE IF v = "HTTPMCPAgentSession"
    THEN HTTPMCPAgentSession_execute_tool(uid, tool_name, arguments, d, env)
    ELSE IF v = "StdioMCPAgentSession"
    THEN call_mcp_tool(uid, tool_name, arguments, d, env, conn)
    ELSE FastMCPAgent_call_tool(uid, tool_name, arguments, d, env, conn)

---------------------------------------------------------------------------
(* The orchestrator: CustomerSupportAgent.process_message, and the chat    *)
(* loops of run_mcp.py and run_fastmcp.py                                  *)

\* the variants that run CustomerSupportAgent.process_message
AgentVariants == {"AgentSession", "SimpleAgentSession", "HTTPMCPAgentSession"}

\* mutant: the message replaces the history instead of extending it
_add_to_history_replacing(history, role, content) ==
    << [role |-> role, content |-> content] >>

\* mutant: the history is a window of the last four messages
_add_to_history_windowed(history, role, content) ==
    IF Len(history) >= 4
    THEN Append(Tail(history), [role |-> role, content |-> content])
    ELSE Append(history, [role |-> role, content |-> content])

\* CustomerSupportAgent._add_to_history / conversation_history.append
_add_to_history(history, role, content) ==
    Append(history, Message(role, content))

\* CustomerSupportAgent._has_tool_use
_has_tool_use(content) ==
    \E i \in 1..Len(content) : content[i].type = "tool_use"

\* index of the first tool_use block at or after position from, 0 if none
\* mutant: the loop over the blocks stops after the first tool_use block
NextToolUse_first_only(content, from) ==
    LET at == {i \in 1..Len(content) : content[i].type = "tool_use"}
    IN  IF from > 1 \/ at = {} THEN 0
        ELSE CHOOSE i \in at : \A j \in at : i <= j

\* index of the first tool_use block of content at or after from (0: none)
NextToolUse(content, from) ==
    LET at == {i \in from..Len(content) : content[i].type = "tool_use"}
    IN  IF at = {} THEN 0 ELSE CHOOSE i \in at : \A j \in at : i <= j

IsTextBlock(block) == block.type = "text"

\* the texts of the text blocks of content, in block order
TextParts(content) ==
    LET blocks == SelectSeq(content, IsTextBlock)
    IN  [i \in 1..Len(blocks) |-> blocks[i].text]

Apology == "I apologize, but I couldn't generate a response."

\* CustomerSupportAgent._extract_text_response
_extract_text_response(content) ==
    IF TextParts(content) # <<>> THEN Join("\n", TextParts(content))
    ELSE Apology

\* the loop  final_response += block.text  of run_mcp.py and run_fastmcp.py
ConcatenateText(content) == Join("", TextParts(content))

FinalResponse(v, content) ==
    IF v \in AgentVariants THEN _extract_text_response(content)
    ELSE ConcatenateText(content)

\* the tools argument of messages.create
ToolsArgument(v, tools) ==
    IF v \in AgentVariants /\ tools = <<>> THEN [given |-> FALSE]
    ELSE [given |-> TRUE, tools |-> tools]

\* mutant: the calls that follow a round of tool results omit the tools
ModelRequest_tools_once(v, history, tools) ==
    [messages |-> history,
     tools |-> IF history[Len(history)].content.kind = "list"
               THEN [given |-> FALSE]
               ELSE ToolsArgument(v, tools)]

\* mutant: the call is issued before the last message is appended
ModelRequest_stale(v, history, tools) ==
    [messages |-> SubSeq(history, 1, Len(history) - 1),
     tools |-> ToolsArgument(v, tools)]

\* the request of one model call
ModelRequest(v, history, tools) ==
    [messages |-> history, tools |-> ToolsArgument(v, tools)]

\* _convert_tool_format / _convert_tools / the /tools endpoint
ConvertTool(tool) ==
    [name |-> tool.name, description |-> tool.description,
     input_schema |-> tool.inputSchema]

ConvertTools(tools) == [i \in 1..Len(tools) |-> ConvertTool(tools[i])]

\* the tool definitions the server behind variant v publishes
ServerTools(v) ==
    IF v = "FastMCPAgent" THEN fastmcp_tools ELSE get_tool_definitions

\* the catalog a session of variant v loads when it is constructed
LoadedTools(v) ==
    IF v = "FastMCPAgent" THEN ConvertTools(fastmcp_tools)
    ELSE ConvertTools(get_tool_definitions)

\* The stdio transport as its owner holds it.  stdio is the context
\* returned by stdio_client (entered: the server process runs), session
\* the ClientSession (entered: its reader task runs).  Each is "none",
\* "created", "entered" or "exited".
PipeNone == [stdio |-> "none", session |-> "none"]
PipeEntered == [stdio |-> "entered", session |-> "entered"]
PipeExited == [stdio |-> "exited", session |-> "exited"]

---------------------------------------------------------------------------
(* What the model service may answer *)

\* What the user types: the n-th send of a session passes Script[n]
Script == << "What's my balance?", "Deactivate my card", "Thanks" >>

UserTexts(n) == { Script[((n - 1) % Len(Script)) + 1] }

In0 == NoArgs
In2 == "user_id" :> S("user_002")

ToolUses ==
    { ToolUseBlock("toolu_1", "get_account_balance", In0),
      ToolUseBlock("toolu_1", "get_account_balance", In2) }

ToolResponses ==
    { <<b>> : b \in ToolUses } \cup
    { << TextBlock("Let me check."),
         ToolUseBlock("toolu_2", "does_not_exist", In2),
         TextBlock("And the card."),
         ToolUseBlock("toolu_1", "deactivate_card", In0) >> }

TextResponses ==
    { <<>>,
      << TextBlock("") >>,
      << TextBlock("Your balance is $5420.50") >>,
      << TextBlock("Done."), TextBlock("Anything else?") >> }

ModelResponses == ToolResponses \cup TextResponses

---------------------------------------------------------------------------
(* State machine of one session *)

Init ==
    /\ variant \in Variants
    /\ user_id = "user_001"
    /\ conversation_history = <<>>
    /\ mcp_tools = LoadedTools(variant)
    /\ connected = TRUE
    /\ tools_cache = IF variant = "HTTPMCPAgentSession"
                     THEN [set |-> TRUE, tools |-> LoadedTools(variant)]
                     ELSE IF variant = "SimpleAgentSession"
                     THEN [set |-> TRUE, tools |-> get_tool_definitions]
                     ELSE [set |-> FALSE]
    /\ db = DefaultData
    /\ file = DefaultData
    /\ pc = "idle"
    /\ response = <<>>
    /\ block_idx = 0
    /\ tool_results = <<>>
    /\ outcome = [kind |-> "none"]
    /\ sends = 0
    /\ calls = 0
    /\ send_text = ""
    /\ history_at_send = <<>>
    /\ model_calls = <<>>
    /\ bridge_calls = <<>>
    /\ last_op = [name |-> "init"]
    /\ tool_call = [name |-> "", arguments |-> NoArgs]
    /\ tool_reply = [content |-> <<>>, raised |-> FALSE]
    /\ catalog = ServerTools(variant)
    /\ list_requests = 0
    /\ listed = <<>>
    /\ pipe = IF variant \in PipeVariants THEN PipeEntered ELSE PipeNone

\* send(text), up to the first model call
Send(text) ==
    /\ pc = "idle"
    /\ sends < MaxSends
    /\ calls < MaxModelCalls
    /\ conversation_history' =
           _add_to_history(conversation_history, "user", Str(text))
    /\ model_calls' = << ModelRequest(variant, conversation_history',
                                      mcp_tools) >>
    /\ pc' = "model"
    /\ outcome' = [kind |-> "pending"]
    /\ sends' = sends + 1
    /\ calls' = calls + 1
    /\ send_text' = text
    /\ history_at_send' = conversation_history
    /\ bridge_calls' = <<>>
    /\ response' = <<>>
    /\ block_idx' = 0
    /\ tool_results' = <<>>
    /\ last_op' = [name |-> "send"]
    /\ UNCHANGED <<variant, user_id, mcp_tools, connected, tools_cache,
                   db, file>>
    /\ UNCHANGED <<tool_call, tool_reply, catalog, list_requests, listed,
                   pipe>>

\* mutant: the failed call is issued once more
ModelFail_retrying ==
    /\ pc = "model"
    /\ calls < MaxModelCalls
    /\ calls' = calls + 1
    /\ model_calls' = Append(model_calls, Last(model_calls))
    /\ last_op' = [name |-> "model_fail"]
    /\ UNCHANGED <<variant, user_id, conversation_history, mcp_tools,
                   connected, tools_cache, db, file, pc, response, block_idx,
                   tool_results, outcome, sends, send_text, history_at_send,
                   bridge_calls>>
    /\ UNCHANGED <<tool_call, tool_reply, catalog, list_requests, listed,
                   pipe>>

\* mutant: the failed send takes its messages out of the history again
ModelFail_rolling_back ==
    /\ pc = "model"
    /\ pc' = "idle"
    /\ conversation_history' = history_at_send
    /\ outcome' = [kind |-> "raised", by |-> "model"]
    /\ last_op' = [name |-> "model_fail"]
    /\ UNCHANGED <<variant, user_id, mcp_tools,
                   connected, tools_cache, db, file, response, block_idx,
                   tool_results, sends, calls, send_text, history_at_send,
                   model_calls, bridge_calls>>
    /\ UNCHANGED <<tool_call, tool_reply, catalog, list_requests, listed,
                   pipe>>

\* the model call raises: the exception leaves send
ModelFail ==
    /\ pc = "model"
    /\ pc' = "idle"
    /\ outcome' = [kind |-> "raised", by |-> "model"]
    /\ last_op' = [name |-> "model_fail"]
    /\ UNCHANGED <<variant, user_id, conversation_history, mcp_tools,
                   connected, tools_cache, db, file, response, block_idx,
                   tool_results, sends, calls, send_text, history_at_send,
                   model_calls, bridge_calls>>
    /\ UNCHANGED <<tool_call, tool_reply, catalog, list_requests, listed,
                   pipe>>

\* mutant: the loop gives up after one round of tool calls and answers with
\* the text of the response that asked for more
ModelRequestsTools_round_limited(content) ==
    /\ pc = "model"
    /\ _has_tool_use(content)
    /\ calls < MaxModelCalls
    /\ response' = content
    /\ IF Len(model_calls) < 2
       THEN /\ conversation_history' =
                   _add_to_history(conversation_history, "assistant",
                                   List(content))
            /\ block_idx' = NextToolUse(content, 1)
            /\ tool_results' = <<>>
            /\ pc' = "tools"
            /\ last_op' = [name |-> "model_tools"]
            /\ UNCHANGED outcome
       ELSE /\ conversation_history' =
                   _add_to_history(conversation_history, "assistant",
                                   Str(FinalResponse(variant, content)))
            /\ outcome' = [kind |-> "returned",
                           text |-> FinalResponse(variant, content)]
            /\ pc' = "idle"
            /\ last_op' = [name |-> "model_answer"]
            /\ UNCHANGED <<block_idx, tool_results>>
    /\ UNCHANGED <<variant, user_id, mcp_tools, connected, tools_cache,
                   db, file, sends, calls, send_text,
                   history_at_send, model_calls, bridge_calls>>
    /\ UNCHANGED <<tool_call, tool_reply, catalog, list_requests, listed,
                   pipe>>

\* the model answers with tool_use blocks: the loop body up to the first
\* tool call
ModelRequestsTools(content) ==
    /\ pc = "model"
    /\ _has_tool_use(content)
    /\ calls < MaxModelCalls
    /\ conversation_history' =
           _add_to_history(conversation_history, "assistant", List(content))
    /\ response' = content
    /\ block_idx' = NextToolUse(content, 1)
    /\ tool_results' = <<>>
    /\ pc' = "tools"
    /\ last_op' = [name |-> "model_tools"]
    /\ UNCHANGED <<variant, user_id, mcp_tools, connected, tools_cache,
                   db, file, outcome, sends, calls, send_text,
                   history_at_send, model_calls, bridge_calls>>
    /\ UNCHANGED <<tool_call, tool_reply, catalog, list_requests, listed,
                   pipe>>

\* the model answers without tool_use blocks: send returns
ModelAnswers(content) ==
    /\ pc = "model"
    /\ ~_has_tool_use(content)
    /\ LET final_response == FinalResponse(variant, content)
       IN  /\ conversation_history' =
                  _add_to_history(conversation_history, "assistant",
                                  Str(final_response))
           /\ outcome' = [kind |-> "returned", text |-> final_response]
    /\ response' = content
    /\ pc' = "idle"
    /\ last_op' = [name |-> "model_answer"]
    /\ UNCHANGED <<variant, user_id, mcp_tools, connected, tools_cache,
                   db, file, block_idx, tool_results, sends, calls,
                   send_text, history_at_send, model_calls, bridge_calls>>
    /\ UNCHANGED <<tool_call, tool_reply, catalog, list_requests, listed,
                   pipe>>

\* what the environment decides for one tool call
Envs(v, tool_name) ==
    [transport : TransportOutcomes(v),
     priority : IF tool_name = "report_issue" THEN Priorities ELSE {"low"}]

\* one pass of  for block in response.content  that reaches a tool_use
\* block: the callback runs, the result is collected; after the last
\* tool_use block the results are appended and the next model call is made
ToolStep(env) ==
    /\ pc = "tools"
    /\ LET Record(block, r, n, next) ==
               \* block.input is the dict the callback updated, and the
               \* assistant message in history holds the same block objects
               /\ response' = [response EXCEPT ![block_idx].input = r.arguments]
               /\ db' = r.db
               /\ file' = IF r.saved THEN r.db ELSE file
               /\ bridge_calls' = Append(bridge_calls,
                      [round |-> Len(model_calls), tool_use_id |-> block.id,
                       name |-> block.name, arguments |-> r.arguments,
                       session_user |-> user_id,
                       transport_ok |->
                           IF variant \in PipeVariants
                           THEN PipeEnv(env, connected).transport = "ok"
                           ELSE env.transport = "ok",
                       raised |-> r.raised])
               /\ IF r.raised
                  THEN /\ conversation_history' =
                              [conversation_history EXCEPT
                                   ![n].content.blocks = response']
                       /\ pc' = "idle"
                       /\ outcome' = [kind |-> "raised", by |-> "tool"]
                       /\ UNCHANGED <<block_idx, tool_results, calls,
                                      model_calls>>
                  ELSE IF next # 0
                  THEN /\ conversation_history' =
                              [conversation_history EXCEPT
                                   ![n].content.blocks = response']
                       /\ tool_results' = Append(tool_results,
                              ToolResultBlock(block.id, r.text))
                       /\ block_idx' = next
                       /\ UNCHANGED <<pc, outcome, calls, model_calls>>
                  ELSE /\ tool_results' = Append(tool_results,
                              ToolResultBlock(block.id, r.text))
                       /\ conversation_history' =
                              _add_to_history(
                                  [conversation_history EXCEPT
                                       ![n].content.blocks = response'],
                                  "user", List(tool_results'))
                       /\ block_idx' = 0
                       /\ pc' = "model"
                       /\ calls' = calls + 1
                       /\ model_calls' = Append(model_calls,
                              ModelRequest(variant, conversation_history',
                                           mcp_tools))
                       /\ UNCHANGED outcome
       IN  Record(response[block_idx],
                  ToolCallback(variant, user_id, response[block_idx].name,
                               response[block_idx].input, db, env, connected),
                  Len(conversation_history),
                  NextToolUse(response, block_idx + 1))
    /\ last_op' = [name |-> "tool"]
    /\ UNCHANGED <<variant, user_id, mcp_tools, connected, tools_cache,
                   sends, send_text, history_at_send>>
    /\ UNCHANGED <<tool_call, tool_reply, catalog, list_requests, listed,
                   pipe>>

\* The record of a turn (its outcome, its logs) is kept until the front end
\* issues its next command.
DropTurnRecord ==
    /\ outcome' = [kind |-> "none"]
    /\ send_text' = ""
    /\ history_at_send' = <<>>
    /\ model_calls' = <<>>
    /\ bridge_calls' = <<>>
    /\ response' = <<>>
    /\ tool_results' = <<>>

\* mutant: reset builds a fresh agent, which starts as the default user
Reset_recreating_agent ==
    /\ pc = "idle"
    /\ conversation_history' = <<>>
    /\ user_id' = "user_001"
    /\ last_op' = [name |-> "reset", cleared |-> Len(conversation_history)]
    /\ DropTurnRecord
    /\ UNCHANGED <<variant, mcp_tools, connected, tools_cache,
                   db, file, pc, block_idx, sends, calls>>
    /\ UNCHANGED <<tool_call, tool_reply, catalog, list_requests, listed,
                   pipe>>

\* reset()
Reset ==
    /\ pc = "idle"
    /\ conversation_history' = <<>>
    /\ last_op' = [name |-> "reset", cleared |-> Len(conversation_history)]
    /\ DropTurnRecord
    /\ UNCHANGED <<variant, user_id, mcp_tools, connected, tools_cache,
                   db, file, pc, block_idx, sends, calls>>
    /\ UNCHANGED <<tool_call, tool_reply, catalog, list_requests, listed,
                   pipe>>

\* mutant: switching the user also starts a new conversation
SwitchUser_clearing_history(u) ==
    /\ pc = "idle"
    /\ user_id' = u
    /\ conversation_history' = <<>>
    /\ last_op' = [name |-> "switch", from |-> user_id]
    /\ DropTurnRecord
    /\ UNCHANGED <<variant, mcp_tools, connected,
                   tools_cache, db, file, pc, block_idx, sends, calls>>
    /\ UNCHANGED <<tool_call, tool_reply, catalog, list_requests, listed,
                   pipe>>

\* switchUser(u): set_user_id, or the front end's  session.user_id = u
SwitchUser(u) ==
    /\ pc = "idle"
    /\ user_id' = u
    /\ last_op' = [name |-> "switch", from |-> user_id]
    /\ DropTurnRecord
    /\ UNCHANGED <<variant, conversation_history, mcp_tools, connected,
                   tools_cache, db, file, pc, block_idx, sends, calls>>
    /\ UNCHANGED <<tool_call, tool_reply, catalog, list_requests, listed,
                   pipe>>

\* the connection to the child process is closed (disconnect)
Disconnect ==
    /\ pc = "idle"
    /\ variant \in PipeVariants
    /\ connected
    /\ connected' = FALSE
    /\ pipe' = PipeExited
    /\ last_op' = [name |-> "disconnect"]
    /\ DropTurnRecord
    /\ UNCHANGED <<variant, user_id, conversation_history, mcp_tools,
                   tools_cache, db, file, pc, block_idx, sends, calls>>
    /\ UNCHANGED <<tool_call, tool_reply, catalog, list_requests, listed>>

Next ==
    \/ \E text \in UserTexts(sends + 1) : Send(text)
    \/ ModelFail
    \/ \E content \in ToolResponses : ModelRequestsTools(content)
    \/ \E content \in TextResponses : ModelAnswers(content)
    \/ /\ pc = "tools"
       /\ \E env \in Envs(variant, response[block_idx].name) : ToolStep(env)
    \/ Reset
    \/ \E u \in Users : SwitchUser(u)
    \/ Disconnect

Spec == Init /\ [][Next]_vars

---------------------------------------------------------------------------
(* State machine of the registry driven directly, the way                  *)
(* tests/test_system.py awaits execute_tool(name, arguments)               *)

\* the names execute_tool dispatches on
CatalogNames ==
    {get_tool_definitions[i].name : i \in DOMAIN get_tool_definitions}

\* tool names offered to the registry: the catalog, and names outside it
\* (one of them a tool that only the FastMCP server has)
RegistryNames == CatalogNames \cup {"does_not_exist", "switch_user", ""}

\* argument mappings offered to the registry
RegistryArguments ==
    { NoArgs,
      "user_id" :> S("user_001"),
      "user_id" :> S("user_999"),
      "user_id" :> I(1),
      ("user_id" :> S("user_001")) @@ ("new_password" :> S("s3cret")),
      ("user_id" :> S("user_002")) @@ ("new_address" :> S("1 New Rd")),
      ("user_id" :> S("user_001")) @@ ("issue_description" :> S("lost card")),
      ("user_id" :> S("user_001")) @@ ("limit" :> I(2)),
      ("user_id" :> S("user_001")) @@ ("limit" :> I(-1)),
      ("user_id" :> S("user_001")) @@ ("limit" :> S("2")),
      ("user_id" :> S("user_001")) @@ ("limit" :> S("many")),
      ("user_id" :> S("user_002")) @@ ("verbose" :> S("yes")) }

InitRegistry ==
    /\ Init
    /\ variant = "SimpleAgentSession"

\* await execute_tool(tool_name, arguments)
ExecuteTool(tool_name, arguments, env) ==
    /\ tool_name = "report_issue" => Len(db.issues) < MaxIssues
    /\ LET Returned(r) ==
               /\ tool_call' = [name |-> tool_name, arguments |-> arguments]
               /\ tool_reply' = [content |-> r.content, raised |-> r.raised]
               /\ db' = r.db
               /\ file' = IF r.saved THEN r.db ELSE file
       IN  Returned(execute_tool(tool_name, arguments, db, env))
    /\ last_op' = [name |-> "execute_tool"]
    /\ UNCHANGED <<variant, user_id, conversation_history, mcp_tools,
                   connected, tools_cache, pc, response, block_idx,
                   tool_results, outcome, sends, calls, send_text,
                   history_at_send, model_calls, bridge_calls, catalog,
                   list_requests, listed, pipe>>

NextRegistry ==
    \E tool_name \in RegistryNames, arguments \in RegistryArguments :
        \E env \in [priority : IF tool_name = "report_issue"
                                THEN Priorities ELSE {"low"}] :
            ExecuteTool(tool_name, arguments, env)

SpecRegistry == InitRegistry /\ [][NextRegistry]_vars

---------------------------------------------------------------------------
(* The registry called with well-formed arguments, for users the store
   holds and for a user it does not hold *)

UserIds == {"user_001", "user_999"}

\* for every tool of the catalog, a mapping that satisfies its schema
UserArguments ==
    { ("user_id" :> S(u)) @@ rest :
        u \in UserIds,
        rest \in { NoArgs,
                   "new_password" :> S("s3cret"),
                   "new_address" :> S("1 New Rd"),
                   "issue_description" :> S("lost card"),
                   "limit" :> I(2) } }

NextRegistryUsers ==
    \E tool_name \in CatalogNames, arguments \in UserArguments :
        \E env \in [priority : IF tool_name = "report_issue"
                                THEN Priorities ELSE {"low"}] :
            ExecuteTool(tool_name, arguments, env)

SpecRegistryUsers == InitRegistry /\ [][NextRegistryUsers]_vars

---------------------------------------------------------------------------
(* State machine of a transport client asked for the catalog: the client   *)
(* of AgentSession is SyncMCPClient, of SimpleAgentSession                  *)
(* DirectToolExecutor, of the HTTP MCPAgentSession HTTPMCPClient.           *)

ClientVariants == AgentVariants

\* catalogs a server may publish
Catalogs ==
    { <<>>, SubSeq(get_tool_definitions, 1, 1), get_tool_definitions,
      fastmcp_tools }

\* Python's truth value of tools_cache (None and [] are false)
Truthy(cache) == cache.set /\ cache.tools # <<>>

\* A list_tools call yields [raised, tools |-> what it returns,
\* cache |-> tools_cache after, requested |-> TRUE when it went to the
\* transport]
Listed(raised, tools, cache, requested) ==
    [raised |-> raised, tools |-> tools, cache |-> cache,
     requested |-> requested]

\* HTTPMCPClient.list_tools, served by the /tools endpoint
HTTPMCPClient_list_tools(cache, served, env) ==
    IF Truthy(cache) THEN Listed(FALSE, cache.tools, cache, FALSE)
    ELSE IF env.transport = "ok"
    THEN Listed(FALSE, ConvertTools(served),
                [set |-> TRUE, tools |-> ConvertTools(served)], TRUE)
    ELSE Listed(TRUE, <<>>, cache, TRUE)

\* SyncMCPClient.list_tools over MCPClient.list_tools_async
SyncMCPClient_list_tools(conn, cache, served, env) ==
    IF ~conn THEN Listed(TRUE, <<>>, cache, FALSE)
    ELSE IF env.transport = "ok" THEN Listed(FALSE, served, cache, TRUE)
    ELSE Listed(TRUE, <<>>, cache, TRUE)

\* DirectToolExecutor.list_tools
DirectToolExecutor_list_tools(cache) ==
    Listed(FALSE, cache.tools, cache, FALSE)

InitCatalog ==
    /\ variant \in ClientVariants
    /\ catalog \in Catalogs
    /\ user_id = "user_001"
    /\ conversation_history = <<>>
    /\ mcp_tools = <<>>
    /\ connected = TRUE
    /\ tools_cache = IF variant = "SimpleAgentSession"
                     THEN [set |-> TRUE, tools |-> catalog]
                     ELSE [set |-> FALSE]
    /\ db = DefaultData
    /\ file = DefaultData
    /\ pc = "idle"
    /\ response = <<>>
    /\ block_idx = 0
    /\ tool_results = <<>>
    /\ outcome = [kind |-> "none"]
    /\ sends = 0
    /\ calls = 0
    /\ send_text = ""
    /\ history_at_send = <<>>
    /\ model_calls = <<>>
    /\ bridge_calls = <<>>
    /\ last_op = [name |-> "init"]
    /\ tool_call = [name |-> "", arguments |-> NoArgs]
    /\ tool_reply = [content |-> <<>>, raised |-> FALSE]
    /\ list_requests = 0
    /\ listed = <<>>
    /\ pipe = IF variant \in PipeVariants THEN PipeEntered ELSE PipeNone

\* client.list_tools()
ListTools(env) ==
    /\ Len(listed) < MaxLists
    /\ LET Returned(r) ==
               /\ tools_cache' = r.cache
               /\ list_requests' = list_requests + (IF r.requested THEN 1 ELSE 0)
               /\ listed' = Append(listed,
                      [raised |-> r.raised, tools |-> r.tools,
                       requests |-> list_requests',
                       connected |-> connected])
       IN  Returned(IF variant = "HTTPMCPAgentSession"
                    THEN HTTPMCPClient_list_tools(tools_cache, catalog, env)
                    ELSE IF variant = "AgentSession"
                    THEN SyncMCPClient_list_tools(connected, tools_cache,
                                                  catalog, env)
                    ELSE DirectToolExecutor_list_tools(tools_cache))
    /\ last_op' = [name |-> "list_tools"]
    /\ UNCHANGED <<variant, user_id, conversation_history, mcp_tools,
                   connected, db, file, pc, response, block_idx,
                   tool_results, outcome, sends, calls, send_text,
                   history_at_send, model_calls, bridge_calls, tool_call,
                   tool_reply, catalog, pipe>>

NextCatalog ==
    \/ \E env \in [transport : IF variant = "SimpleAgentSession"
                                THEN {"ok"} ELSE {"ok", "fail"}] :
           ListTools(env)
    \/ Disconnect

SpecCatalog == InitCatalog /\ [][NextCatalog]_vars

---------------------------------------------------------------------------
(* State machine of a front end that owns a stdio transport: it connects,  *)
(* converses, and leaves.  run_system.py holds a SyncMCPClient in a with    *)
(* statement; run_mcp.py and run_fastmcp.py connect inside try and          *)
(* disconnect in finally.                                                   *)

\* where connect can fail: spawning the server process, entering the
\* client session, the initialize handshake, the first list_tools
ConnectFailures == {"none", "spawn", "session", "initialize", "list_tools"}

\* what the owner holds when connect stopped at fail_at
PipeAfterConnect(fail_at) ==
    IF fail_at = "spawn" THEN [stdio |-> "created", session |-> "none"]
    ELSE IF fail_at = "session"
    THEN [stdio |-> "entered", session |-> "created"]
    ELSE PipeEntered

\* session.__aexit__(None, None, None).  On a session that was never
\* entered the call is outside the library's contract: env decides whether
\* it raises.  Yields [pipe, raised].
session_aexit(p, env) ==
    IF p.session = "entered"
    THEN [pipe |-> [p EXCEPT !.session = "exited"], raised |-> FALSE]
    ELSE [pipe |-> p, raised |-> env.unentered_exit = "raises"]

\* stdio_context.__aexit__(None, None, None)
stdio_aexit(p) ==
    IF p.stdio = "entered" THEN [p EXCEPT !.stdio = "exited"] ELSE p

\* MCPAgentSession.disconnect of run_mcp.py and FastMCPAgent.disconnect:
\* an exception of the first exit skips the second.  Yields [pipe, raised].
MCPAgentSession_disconnect(p, env) ==
    LET Then(r) ==
            IF r.raised THEN r
            ELSE [pipe |-> IF r.pipe.stdio # "none" THEN stdio_aexit(r.pipe)
                           ELSE r.pipe,
                  raised |-> FALSE]
    IN  Then(IF p.session # "none" THEN session_aexit(p, env)
             ELSE [pipe |-> p, raised |-> FALSE])

\* MCPClient.disconnect: the same two exits inside try/except, which logs
\* the exception
MCPClient_disconnect(p, env) == MCPAgentSession_disconnect(p, env).pipe

\* SyncMCPClient.disconnect
SyncMCPClient_disconnect(conn, p, env) ==
    IF conn THEN MCPClient_disconnect(p, env) ELSE p

InitPipe ==
    /\ variant \in PipeVariants
    /\ catalog = ServerTools(variant)
    /\ user_id = "user_001"
    /\ conversation_history = <<>>
    /\ mcp_tools = <<>>
    /\ connected = FALSE
    /\ tools_cache = [set |-> FALSE]
    /\ db = DefaultData
    /\ file = DefaultData
    /\ pc = "start"
    /\ response = <<>>
    /\ block_idx = 0
    /\ tool_results = <<>>
    /\ outcome = [kind |-> "none"]
    /\ sends = 0
    /\ calls = 0
    /\ send_text = ""
    /\ history_at_send = <<>>
    /\ model_calls = <<>>
    /\ bridge_calls = <<>>
    /\ last_op = [name |-> "init"]
    /\ tool_call = [name |-> "", arguments |-> NoArgs]
    /\ tool_reply = [content |-> <<>>, raised |-> FALSE]
    /\ list_requests = 0
    /\ listed = <<>>
    /\ pipe = PipeNone

\* The front end connects and builds its session.  In run_system.py
\* connect is SyncMCPClient.__enter__ and the catalog is loaded by the
\* AgentSession constructor inside the with block; in run_mcp.py and
\* run_fastmcp.py connect itself lists the tools.
Connect(env) ==
    /\ pc = "start"
    /\ pipe' = PipeAfterConnect(env.fail_at)
    /\ connected' = IF variant = "AgentSession"
                    THEN env.fail_at \in {"none", "list_tools"}
                    ELSE env.fail_at = "none"
    /\ mcp_tools' = IF env.fail_at = "none" THEN LoadedTools(variant)
                    ELSE <<>>
    /\ list_requests' = IF env.fail_at \in {"none", "list_tools"}
                        THEN list_requests + 1 ELSE list_requests
    /\ pc' = IF env.fail_at = "none" THEN "idle" ELSE "failed"
    /\ last_op' = [name |-> "connect", fail_at |-> env.fail_at]
    /\ UNCHANGED <<variant, user_id, conversation_history, tools_cache,
                   db, file, response, block_idx, tool_results, outcome,
                   sends, calls, send_text, history_at_send, model_calls,
                   bridge_calls, tool_call, tool_reply, catalog, listed>>

\* The front end leaves the scope that owns the transport: after exit or
\* quit, after an interrupt, or with the exception of a failed start.
\* run_system.py: __exit__ runs only if __enter__ had returned, and calls
\* SyncMCPClient.disconnect; the others: finally calls disconnect.
Leave(env) ==
    /\ pc \in {"failed", "idle"}
    /\ pipe' = IF variant = "AgentSession"
               THEN SyncMCPClient_disconnect(connected, pipe, env)
               ELSE MCPAgentSession_disconnect(pipe, env).pipe
    /\ connected' = FALSE
    /\ pc' = "left"
    /\ last_op' = [name |-> "leave", from |-> pc]
    /\ DropTurnRecord
    /\ UNCHANGED <<variant, user_id, conversation_history, mcp_tools,
                   tools_cache, db, file, block_idx, sends, calls,
                   tool_call, tool_reply, catalog, list_requests, listed>>

NextPipe ==
    \/ \E env \in [fail_at : ConnectFailures] : Connect(env)
    \/ \E env \in [unentered_exit : {"raises", "returns"}] : Leave(env)
    \/ Next

SpecPipe == InitPipe /\ [][NextPipe]_vars

---------------------------------------------------------------------------
(* The registry on a data file that may refuse to be written                *)
(* (specification SpecDisk).  save_data opens the file for writing with no *)
(* handler of its own: when open() raises, the store operation has already *)
(* updated the dicts in memory, and the exception reaches the except       *)
(* branch of execute_tool.                                                 *)

\* what open(self.data_file, 'w') does: "denied" raises before the file is
\* touched
DiskOutcomes == {"ok", "denied"}

\* the except branch of execute_tool for an OSError of save_data
SaveErrorResult(tool_name) ==
    [success |-> FALSE, error |-> [os_error |-> "Permission denied"],
     message |-> "Failed to execute " \o tool_name]

\* execute_tool when save_data meets env.disk
execute_tool_on_disk(tool_name, arguments, d, env) ==
    LET Caught(r) ==
            IF r.saved /\ env.disk = "denied"
            THEN [content |-> <<TextContent(SaveErrorResult(tool_name))>>,
                  db |-> r.db, saved |-> FALSE, raised |-> FALSE]
            ELSE r
    IN  Caught(execute_tool(tool_name, arguments, d, env))

DiskNames == {"update_address", "deactivate_card", "report_issue",
              "get_account_balance", "does_not_exist"}

DiskArguments ==
    { NoArgs,
      "user_id" :> S("user_001"),
      "user_id" :> S("user_999"),
      ("user_id" :> S("user_001")) @@ ("new_address" :> S("1 New Rd")),
      ("user_id" :> S("user_999")) @@ ("new_address" :> S("1 New Rd")),
      ("user_id" :> S("user_001")) @@ ("issue_description" :> S("lost card")) }

\* await execute_tool(tool_name, arguments)
ExecuteToolOnDisk(tool_name, arguments, env) ==
    /\ tool_name = "report_issue" => Len(db.issues) < MaxIssues
    /\ LET Returned(r) ==
               /\ tool_call' = [name |-> tool_name, arguments |-> arguments]
               /\ tool_reply' = [content |-> r.content, raised |-> r.raised]
               /\ db' = r.db
               /\ file' = IF r.saved THEN r.db ELSE file
       IN  Returned(execute_tool_on_disk(tool_name, arguments, db, env))
    /\ last_op' = [name |-> "execute_tool", disk |-> env.disk]
    /\ UNCHANGED <<variant, user_id, conversation_history, mcp_tools,
                   connected, tools_cache, pc, response, block_idx,
                   tool_results, outcome, sends, calls, send_text,
                   history_at_send, model_calls, bridge_calls, catalog,
                   list_requests, listed, pipe>>

NextDisk ==
    \E tool_name \in DiskNames, arguments \in DiskArguments :
        \E env \in [priority : IF tool_name = "report_issue"
                                THEN Priorities ELSE {"low"},
                     disk : DiskOutcomes] :
            ExecuteToolOnDisk(tool_name, arguments, env)

SpecDisk == InitRegistry /\ [][NextDisk]_vars

---------------------------------------------------------------------------
(* The store driven directly: one MockDatabase object, its methods called
   by the tests and by the registry, and the process that owns it
   restarted *)

StoreUsers == {"user_001", "user_999"}
Addresses == {"New Address 123", "999 Test Street"}
Passwords == {"new_password"}
Descriptions == {"Test issue"}
Limits == (0 - MaxLimit)..MaxLimit

InitStore ==
    /\ Init
    /\ variant = "SimpleAgentSession"

\* a method of the store has returned r; call is what was called
StoreReturned(call, r) ==
    /\ db' = r.db
    /\ file' = IF r.saved THEN r.db ELSE file
    /\ last_op' = call @@ [ret |-> r.ret]
    /\ tool_call' = [name |-> "", arguments |-> NoArgs]
    /\ tool_reply' = [content |-> <<>>, raised |-> FALSE]
    /\ UNCHANGED <<variant, user_id, conversation_history, mcp_tools,
                   connected, tools_cache, pc, response, block_idx,
                   tool_results, outcome, sends, calls, send_text,
                   history_at_send, model_calls, bridge_calls, catalog,
                   list_requests, listed, pipe>>

\* db.change_password(uid, new_password)
ChangePassword(uid, new_password) ==
    /\ uid \in StoreUsers
    /\ StoreReturned([name |-> "change_password", uid |-> uid,
                      new_password |-> new_password],
                     change_password(db, uid, new_password))

\* db.update_address(uid, new_address)
UpdateAddress(uid, new_address) ==
    /\ uid \in StoreUsers
    /\ StoreReturned([name |-> "update_address", uid |-> uid,
                      new_address |-> new_address],
                     update_address(db, uid, new_address))

\* db.get_recent_transactions(uid, limit)
GetRecentTransactions(uid, limit) ==
    /\ uid \in StoreUsers
    /\ StoreReturned([name |-> "get_recent_transactions", uid |-> uid,
                      limit |-> limit],
                     get_recent_transactions(db, uid, limit))

\* db.deactivate_card(uid); old is the status its log line prints
DeactivateCard(uid) ==
    /\ uid \in StoreUsers
    /\ StoreReturned([name |-> "deactivate_card", uid |-> uid,
                      old |-> IF uid \in DOMAIN db.users
                              THEN db.users[uid].card_status ELSE ""],
                     deactivate_card(db, uid))

\* db.report_issue(uid, issue_description)
ReportIssue(uid, issue_description, priority) ==
    /\ Len(db.issues) < MaxIssues
    /\ StoreReturned([name |-> "report_issue", uid |-> uid],
                     report_issue(db, uid, issue_description, priority))

\* db.get_account_details(uid)
GetAccountDetails(uid) ==
    /\ uid \in StoreUsers
    /\ StoreReturned([name |-> "get_account_details", uid |-> uid],
                     get_account_details(db, uid))

\* db.get_account_balance(uid)
GetAccountBalance(uid) ==
    /\ uid \in StoreUsers
    /\ StoreReturned([name |-> "get_account_balance", uid |-> uid],
                     get_account_balance(db, uid))

\* db.switch_user(new_user_id)
StoreSwitchUser(new_user_id) ==
    /\ new_user_id \in StoreUsers
    /\ StoreReturned([name |-> "switch_user", uid |-> new_user_id],
                     switch_user(db, new_user_id))

\* the process ends and a new one builds its MockDatabase: load_data()
\* reads the data file
LoadData ==
    /\ db' = file
    /\ last_op' = [name |-> "load_data", ret |-> TRUE]
    /\ tool_call' = [name |-> "", arguments |-> NoArgs]
    /\ tool_reply' = [content |-> <<>>, raised |-> FALSE]
    /\ UNCHANGED <<variant, user_id, conversation_history, mcp_tools,
                   connected, tools_cache, file, pc, response, block_idx,
                   tool_results, outcome, sends, calls, send_text,
                   history_at_send, model_calls, bridge_calls, catalog,
                   list_requests, listed, pipe>>

\* for every tool of the catalog, a call for user_001 that gives each
\* field of its schema
StoreToolCalls ==
    { c \in (DOMAIN get_tool_definitions) \X UserArguments :
        /\ c[2]["user_id"].v = "user_001"
        /\ DOMAIN c[2] = DOMAIN get_tool_definitions[c[1]].inputSchema }

\* a tool of the registry is executed on the same store
StoreToolCall ==
    \E c \in StoreToolCalls :
        \E env \in [priority : IF get_tool_definitions[c[1]].name =
                                    "report_issue"
                                THEN Priorities ELSE {"low"}] :
            ExecuteTool(get_tool_definitions[c[1]].name, c[2], env)

NextStore ==
    \/ \E uid \in StoreUsers, p \in Passwords : ChangePassword(uid, p)
    \/ \E uid \in StoreUsers, a \in Addresses : UpdateAddress(uid, a)
    \/ \E uid \in StoreUsers, limit \in Limits :
           GetRecentTransactions(uid, limit)
    \/ \E uid \in StoreUsers : DeactivateCard(uid)
    \/ \E uid \in StoreUsers, t \in Descriptions, p \in Priorities :
           ReportIssue(uid, t, p)
    \/ \E uid \in StoreUsers : GetAccountDetails(uid)
    \/ \E uid \in StoreUsers : GetAccountBalance(uid)
    \/ \E uid \in StoreUsers : StoreSwitchUser(uid)
    \/ LoadData
    \/ StoreToolCall

SpecStore == InitStore /\ [][NextStore]_vars

---------------------------------------------------------------------------
(* One store that collects several tickets (specification SpecIssues):     *)
(* report_issue called as a method and as a tool, between other            *)
(* operations of the same MockDatabase object and restarts of its owner    *)

MaxReports == 3

\* db.report_issue(uid, issue_description), up to MaxReports tickets
ReportIssueAgain(uid, issue_description, priority) ==
    /\ Len(db.issues) < MaxReports
    /\ StoreReturned([name |-> "report_issue", uid |-> uid],
                     report_issue(db, uid, issue_description, priority))

\* execute_tool("report_issue", ...), up to MaxReports tickets
ReportIssueTool(uid, issue_description, env) ==
    /\ Len(db.issues) < MaxReports
    /\ LET Returned(r) ==
               /\ tool_reply' = [content |-> r.content, raised |-> r.raised]
               /\ db' = r.db
               /\ file' = IF r.saved THEN r.db ELSE file
       IN  Returned(execute_tool("report_issue",
                                 ("user_id" :> S(uid)) @@
                                 ("issue_description" :> S(issue_description)),
                                 db, env))
    /\ tool_call' = [name |-> "report_issue",
                     arguments |-> ("user_id" :> S(uid)) @@
                         ("issue_description" :> S(issue_description))]
    /\ last_op' = [name |-> "execute_tool"]
    /\ UNCHANGED <<variant, user_id, conversation_history, mcp_tools,
                   connected, tools_cache, pc, response, block_idx,
                   tool_results, outcome, sends, calls, send_text,
                   history_at_send, model_calls, bridge_calls, catalog,
                   list_requests, listed, pipe>>

NextIssues ==
    \/ \E uid \in StoreUsers, t \in Descriptions, p \in Priorities :
           ReportIssueAgain(uid, t, p)
    \/ \E uid \in StoreUsers, t \in Descriptions :
           \E env \in [priority : Priorities] : ReportIssueTool(uid, t, env)
    \/ \E uid \in StoreUsers : DeactivateCard(uid)
    \/ \E uid \in StoreUsers : GetAccountDetails(uid)
    \/ LoadData

SpecIssues == InitStore /\ [][NextIssues]_vars

---------------------------------------------------------------------------
(* Two server processes on one data file (specification SpecShared).  Each *)
(* process imports mock_data and so builds its own MockDatabase, which     *)
(* reads database.json once, in __init__, and writes the whole of its own  *)
(* dicts back on every save_data.  In this specification db holds the      *)
(* MockDatabase of every process, and bridge_calls is the log of the tool  *)
(* calls the processes have answered.                                      *)

Servers == {"server_1", "server_2"}

MaxServerCalls == 3

\* the mutating tool calls the clients of the servers make
SharedCalls ==
    { <<"deactivate_card", "user_id" :> S("user_001")>>,
      <<"update_address",
        ("user_id" :> S("user_002")) @@ ("new_address" :> S("1 New Rd"))>>,
      <<"change_password",
        ("user_id" :> S("user_001")) @@ ("new_password" :> S("s3cret"))>>,
      <<"report_issue",
        ("user_id" :> S("user_001")) @@
        ("issue_description" :> S("lost card"))>>,
      <<"report_issue",
        ("user_id" :> S("user_002")) @@
        ("issue_description" :> S("late fee"))>> }

\* both processes have started on the same file
InitShared ==
    /\ variant = "HTTPMCPAgentSession"
    /\ catalog = ServerTools(variant)
    /\ user_id = "user_001"
    /\ conversation_history = <<>>
    /\ mcp_tools = LoadedTools(variant)
    /\ connected = TRUE
    /\ tools_cache = [set |-> FALSE]
    /\ db = [p \in Servers |-> DefaultData]
    /\ file = DefaultData
    /\ pc = "idle"
    /\ response = <<>>
    /\ block_idx = 0
    /\ tool_results = <<>>
    /\ outcome = [kind |-> "none"]
    /\ sends = 0
    /\ calls = 0
    /\ send_text = ""
    /\ history_at_send = <<>>
    /\ model_calls = <<>>
    /\ bridge_calls = <<>>
    /\ last_op = [name |-> "init"]
    /\ tool_call = [name |-> "", arguments |-> NoArgs]
    /\ tool_reply = [content |-> <<>>, raised |-> FALSE]
    /\ list_requests = 0
    /\ listed = <<>>
    /\ pipe = PipeNone

\* process p answers one tool call: execute_tool on its own MockDatabase,
\* whose save_data writes that object's dicts over the file
ServerExecutesTool(p, tool_name, arguments, env) ==
    /\ Len(bridge_calls) < MaxServerCalls
    /\ LET Returned(r) ==
               /\ tool_reply' = [content |-> r.content, raised |-> r.raised]
               /\ db' = [db EXCEPT ![p] = r.db]
               /\ file' = IF r.saved THEN r.db ELSE file
               /\ bridge_calls' = Append(bridge_calls,
                      [server |-> p, name |-> tool_name,
                       arguments |-> arguments,
                       success |-> r.content[1].text.success])
       IN  Returned(execute_tool(tool_name, arguments, db[p], env))
    /\ tool_call' = [name |-> tool_name, arguments |-> arguments]
    /\ last_op' = [name |-> "execute_tool", server |-> p]
    /\ UNCHANGED <<variant, user_id, conversation_history, mcp_tools,
                   connected, tools_cache, pc, response, block_idx,
                   tool_results, outcome, sends, calls, send_text,
                   history_at_send, model_calls, catalog,
                   list_requests, listed, pipe>>

\* process p is started again: its new MockDatabase reads the file
ServerRestarts(p) ==
    /\ db[p] # file
    /\ db' = [db EXCEPT ![p] = file]
    /\ last_op' = [name |-> "load_data", server |-> p]
    /\ UNCHANGED <<variant, user_id, conversation_history, mcp_tools,
                   connected, tools_cache, file, pc, response, block_idx,
                   tool_results, outcome, sends, calls, send_text,
                   history_at_send, model_calls, bridge_calls, tool_call,
                   tool_reply, catalog, list_requests, listed, pipe>>

NextShared ==
    \/ \E p \in Servers, c \in SharedCalls :
           \E env \in [priority : IF c[1] = "report_issue"
                                   THEN Priorities ELSE {"low"}] :
               ServerExecutesTool(p, c[1], c[2], env)
    \/ \E p \in Servers : ServerRestarts(p)

SpecShared == InitShared /\ [][NextShared]_vars

---------------------------------------------------------------------------
(* SyncMCPClient driven directly: connect, list_tools, call_tool and
   disconnect called in any order on one client object.  connected is its
   _connected flag, pipe what the MCPClient it holds has built; pc records
   what the caller did last to the connection: "start" (nothing yet),
   "idle" (a connect completed), "failed" (a connect raised), "left"
   (disconnect was called). *)

\* where MCPClient.connect can fail
SyncConnectFailures == {"none", "spawn", "session", "initialize"}

\* A request on a session that was never entered is written to the pipe,
\* but nothing reads the reply
SessionEnv(p, env) ==
    IF p.session = "entered" THEN env
    ELSE [env EXCEPT !.transport = "no_reply"]

\* MCPClient.list_tools_async on a client that has built p
MCPClient_list_tools_async(p, served, env) ==
    IF p.session = "none"
    THEN Listed(TRUE, <<>>, [set |-> FALSE], FALSE)
    ELSE IF SessionEnv(p, env).transport = "ok"
    THEN Listed(FALSE, served, [set |-> FALSE], TRUE)
    ELSE Listed(TRUE, <<>>, [set |-> FALSE], TRUE)

\* SyncMCPClient.list_tools on a client that holds an MCPClient with p
SyncMCPClient_list_tools_on(conn, p, served, env) ==
    IF ~conn THEN Listed(TRUE, <<>>, [set |-> FALSE], FALSE)
    ELSE MCPClient_list_tools_async(p, served, env)

\* MCPClient.call_tool_async on a client that has built p
MCPClient_call_tool_async(p, tool_name, arguments, d, env) ==
    IF p.session = "none"
    THEN Reply(TRUE, "Not connected to MCP server", <<>>, d, FALSE)
    ELSE mcp_call_tool(FALSE, tool_name, arguments, d, SessionEnv(p, env))

\* SyncMCPClient.call_tool on a client that holds an MCPClient with p
SyncMCPClient_call_tool_on(conn, p, tool_name, arguments, d, env) ==
    IF ~conn
    THEN Reply(TRUE, "Not connected to MCP server. Call connect() first.",
               <<>>, d, FALSE)
    ELSE MCPClient_call_tool_async(p, tool_name, arguments, d, env)

\* the errors raised before anything is written to the pipe
NotConnectedErrors ==
    {"Not connected to MCP server",
     "Not connected to MCP server. Call connect() first."}

InitSync ==
    /\ InitPipe
    /\ variant = "AgentSession"

\* client.connect(): a new MCPClient replaces the one held
SyncConnect(env) ==
    /\ pipe' = PipeAfterConnect(env.fail_at)
    /\ connected' = IF env.fail_at = "none" THEN TRUE ELSE connected
    /\ pc' = IF env.fail_at = "none" THEN "idle" ELSE "failed"
    /\ last_op' = [name |-> "connect", raised |-> env.fail_at # "none",
                   requested |-> FALSE]
    /\ UNCHANGED <<variant, user_id, conversation_history, mcp_tools,
                   tools_cache, db, file, response, block_idx,
                   tool_results, outcome, sends, calls, send_text,
                   history_at_send, model_calls, bridge_calls, tool_call,
                   tool_reply, catalog, list_requests, listed>>

\* client.disconnect()
SyncDisconnect(env) ==
    /\ pipe' = SyncMCPClient_disconnect(connected, pipe, env)
    /\ connected' = FALSE
    /\ pc' = "left"
    /\ last_op' = [name |-> "disconnect", raised |-> FALSE,
                   requested |-> FALSE]
    /\ UNCHANGED <<variant, user_id, conversation_history, mcp_tools,
                   tools_cache, db, file, response, block_idx,
                   tool_results, outcome, sends, calls, send_text,
                   history_at_send, model_calls, bridge_calls, tool_call,
                   tool_reply, catalog, list_requests, listed>>

\* client.list_tools()
SyncListTools(env) ==
    /\ LET Returned(r) ==
               last_op' = [name |-> "list_tools", raised |-> r.raised,
                           requested |-> r.requested]
       IN  Returned(SyncMCPClient_list_tools_on(connected, pipe, catalog,
                                                env))
    /\ UNCHANGED <<variant, user_id, conversation_history, mcp_tools,
                   connected, tools_cache, db, file, pc, response,
                   block_idx, tool_results, outcome, sends, calls,
                   send_text, history_at_send, model_calls, bridge_calls,
                   tool_call, tool_reply, catalog, list_requests, listed,
                   pipe>>

\* client.call_tool(tool_name, arguments)
SyncCallTool(tool_name, arguments, env) ==
    /\ tool_name = "report_issue" => Len(db.issues) < MaxIssues
    /\ LET Returned(r) ==
               /\ tool_call' = [name |-> tool_name, arguments |-> arguments]
               /\ tool_reply' = [content |-> r.content, raised |-> r.raised]
               /\ db' = r.db
               /\ file' = IF r.saved THEN r.db ELSE file
               /\ last_op' = [name |-> "call_tool", raised |-> r.raised,
                              requested |-> r.error \notin NotConnectedErrors]
       IN  Returned(SyncMCPClient_call_tool_on(connected, pipe, tool_name,
                                               arguments, db, env))
    /\ UNCHANGED <<variant, user_id, conversation_history, mcp_tools,
                   connected, tools_cache, pc, response, block_idx,
                   tool_results, outcome, sends, calls, send_text,
                   history_at_send, model_calls, bridge_calls, catalog,
                   list_requests, listed, pipe>>

NextSync ==
    \/ \E env \in [fail_at : SyncConnectFailures] : SyncConnect(env)
    \/ \E env \in [unentered_exit : {"raises", "returns"}] :
           SyncDisconnect(env)
    \/ \E env \in [transport : {"ok", "no_reply"}] : SyncListTools(env)
    \/ \E c \in StoreToolCalls :
           \E env \in [transport : {"ok", "no_reply"},
                       priority : IF get_tool_definitions[c[1]].name =
                                       "report_issue"
                                   THEN Priorities ELSE {"low"}] :
               SyncCallTool(get_tool_definitions[c[1]].name, c[2], env)

SpecSync == InitSync /\ [][NextSync]_vars

---------------------------------------------------------------------------
(* What the callbacks make of a bridge result: a result of any number of
   text parts is handed to the callback of a variant, which builds the
   content of the tool_result block *)

MaxParts == 3        \* parts of one bridge result
PartTexts == {"first", "second", "third"}

\* results of 0..n text parts
RECURSIVE PartLists(_)
PartLists(n) ==
    IF n = 0 THEN { <<>> }
    ELSE PartLists(n - 1) \cup
         { Append(parts, TextContent(t)) :
               parts \in {q \in PartLists(n - 1) : Len(q) = n - 1},
               t \in PartTexts }

\* the text the callback of variant v returns for a result with parts
\* content: AgentSession._execute_tool, DirectToolExecutor.call_tool,
\* execute_tool_endpoint with HTTPMCPClient.call_tool, call_mcp_tool,
\* FastMCPAgent.call_tool
ResultText(v, content) ==
    IF v \in {"AgentSession", "SimpleAgentSession"}
    THEN FirstText(content, EmptyListRepr)
    ELSE FirstText(content, EmptyObject)

InitParts ==
    /\ variant \in Variants
    /\ catalog = ServerTools(variant)
    /\ user_id = "user_001"
    /\ conversation_history = <<>>
    /\ mcp_tools = LoadedTools(variant)
    /\ connected = TRUE
    /\ tools_cache = [set |-> FALSE]
    /\ db = DefaultData
    /\ file = DefaultData
    /\ pc = "tools"
    /\ response = <<>>
    /\ block_idx = 0
    /\ tool_results = <<>>
    /\ outcome = [kind |-> "pending"]
    /\ sends = 0
    /\ calls = 0
    /\ send_text = ""
    /\ history_at_send = <<>>
    /\ model_calls = <<>>
    /\ bridge_calls = <<>>
    /\ last_op = [name |-> "init"]
    /\ tool_call = [name |-> "", arguments |-> NoArgs]
    /\ tool_reply = [content |-> <<>>, raised |-> FALSE]
    /\ list_requests = 0
    /\ listed = <<>>
    /\ pipe = IF variant \in PipeVariants THEN PipeEntered ELSE PipeNone

\* the bridge returns a result with parts content, and the loop builds the
\* tool_result block from what the callback returns
BridgeReturns(content) ==
    /\ tool_reply' = [content |-> content, raised |-> FALSE]
    /\ tool_results' = << ToolResultBlock("toolu_1",
                                          ResultText(variant, content)) >>
    /\ last_op' = [name |-> "bridge_result"]
    /\ UNCHANGED <<variant, user_id, conversation_history, mcp_tools,
                   connected, tools_cache, db, file, pc, response,
                   block_idx, outcome, sends, calls, send_text,
                   history_at_send, model_calls, bridge_calls, tool_call,
                   catalog, list_requests, listed, pipe>>

NextParts == \E content \in PartLists(MaxParts) : BridgeReturns(content)

SpecParts == InitParts /\ [][NextParts]_vars

---------------------------------------------------------------------------
(* HTTPMCPClient.call_tool against the HTTP server: POST /tools/execute
   with {name, arguments}, answered by execute_tool_endpoint *)

HTTPNames == CatalogNames \cup {"does_not_exist"}

\* no arguments (a validation failure for every tool), a user of the store
\* and an unknown user
HTTPArguments ==
    { NoArgs,
      "user_id" :> S("user_001"),
      "user_id" :> S("user_999"),
      ("user_id" :> S("user_001")) @@ ("new_password" :> S("s3cret")),
      ("user_id" :> S("user_999")) @@ ("issue_description" :> S("lost card")) }

InitHTTP ==
    /\ Init
    /\ variant = "HTTPMCPAgentSession"

\* client.call_tool(tool_name, arguments).  tool_reply records what the
\* client returned, the response the endpoint produced for the request
\* and the result execute_tool gave the endpoint
HTTPCallTool(tool_name, arguments, env) ==
    /\ tool_name = "report_issue" => Len(db.issues) < MaxIssues
    /\ LET Returned(r, resp, inner) ==
               /\ tool_call' = [name |-> tool_name, arguments |-> arguments]
               /\ tool_reply' = [content |-> r.content, raised |-> r.raised,
                                 response |-> [status |-> resp.status,
                                               body |-> resp.body],
                                 inner |-> inner.content]
               /\ db' = r.db
               /\ file' = IF r.saved THEN r.db ELSE file
       IN  Returned(HTTPMCPClient_call_tool(tool_name, arguments, db, env),
                    execute_tool_endpoint(tool_name, arguments, db, env),
                    execute_tool(tool_name, arguments, db, env))
    /\ last_op' = [name |-> "http_call_tool", transport |-> env.transport]
    /\ UNCHANGED <<variant, user_id, conversation_history, mcp_tools,
                   connected, tools_cache, pc, response, block_idx,
                   tool_results, outcome, sends, calls, send_text,
                   history_at_send, model_calls, bridge_calls, catalog,
                   list_requests, listed, pipe>>

NextHTTP ==
    \E tool_name \in HTTPNames, arguments \in HTTPArguments :
        \E env \in [transport : TransportOutcomes("HTTPMCPAgentSession"),
                     priority : IF tool_name = "report_issue"
                                THEN Priorities ELSE {"low"}] :
            HTTPCallTool(tool_name, arguments, env)

SpecHTTP == InitHTTP /\ [][NextHTTP]_vars

---------------------------------------------------------------------------
(* A FastMCP session whose model uses the switch_user tool, as the system  *)
(* prompt tells it to (specification SpecSwitch)                           *)

NewUser == "new_user_id" :> S("user_002")
NoSuchUser == "new_user_id" :> S("user_999")

\* What the model asks for: a switch, a balance, or both in one response
SwitchToolResponses ==
    { << ToolUseBlock("toolu_1", "switch_user", NewUser) >>,
      << ToolUseBlock("toolu_1", "switch_user", NoSuchUser) >>,
      << ToolUseBlock("toolu_1", "get_account_balance", In0) >>,
      << ToolUseBlock("toolu_1", "get_account_balance", In2) >>,
      << ToolUseBlock("toolu_1", "switch_user", NewUser),
         ToolUseBlock("toolu_2", "get_account_balance", In0) >> }

SwitchTextResponses == { << TextBlock("Switched to Jane Smith.") >> }

InitSwitch == Init /\ variant = "FastMCPAgent"

NextSwitch ==
    \/ \E text \in UserTexts(sends + 1) : Send(text)
    \/ \E content \in SwitchToolResponses : ModelRequestsTools(content)
    \/ \E content \in SwitchTextResponses : ModelAnswers(content)
    \/ /\ pc = "tools"
       /\ \E env \in Envs(variant, response[block_idx].name) : ToolStep(env)
    \/ \E u \in Users : SwitchUser(u)

SpecSwitch == InitSwitch /\ [][NextSwitch]_vars

---------------------------------------------------------------------------
(* Properties of the session (specification Spec) *)

\* the ids of the tool_use blocks of content, in block order
ToolUseIds(content) ==
    LET uses == SelectSeq(content, LAMBDA b : b.type = "tool_use")
    IN  [i \in 1..Len(uses) |-> uses[i].id]

\* the tool calls of the round the last tool call belongs to
LastRoundCalls ==
    SelectSeq(bridge_calls, LAMBDA c : c.round = Last(bridge_calls).round)

\* a send has just returned
SendReturned == last_op.name = "model_answer"

\* the tool phase of a round has just ended (all results appended, or left
\* by an exception)
ToolPhaseEnded == last_op.name = "tool" /\ pc # "tools"

\* C1: every tool call made during send carries, as user_id, the session's
\* current user id, whatever the model put in the ToolUse input
C1_IdentityIsAuthoritative ==
    \A i \in 1..Len(bridge_calls) :
        /\ "user_id" \in DOMAIN bridge_calls[i].arguments
        /\ bridge_calls[i].arguments["user_id"] =
               S(bridge_calls[i].session_user)

\* C2: when the tool phase of a response with N tool_use blocks ends, the
\* callback was invoked N times, in block order, and history ends with the
\* assistant message followed by one user message of N tool_result blocks
\* that echo the tool_use ids in order
C2_OneResultPerToolUse ==
    ToolPhaseEnded =>
        LET ids == ToolUseIds(response)
            n == Len(conversation_history)
        IN  /\ [i \in 1..Len(LastRoundCalls) |->
                    LastRoundCalls[i].tool_use_id] = ids
            /\ n >= 2
            /\ conversation_history[n - 1] =
                   Message("assistant", List(response))
            /\ conversation_history[n].role = "user"
            /\ conversation_history[n].content.kind = "list"
            /\ LET blocks == conversation_history[n].content.blocks
               IN  /\ \A i \in 1..Len(blocks) :
                          blocks[i].type = "tool_result"
                   /\ [i \in 1..Len(blocks) |-> blocks[i].tool_use_id] = ids

\* C3: a response without tool_use blocks and with at least one text block
\* makes send return the texts of its text blocks, concatenated in block
\* order with nothing between them
C3_ReturnsConcatenation ==
    (SendReturned /\ TextParts(response) # <<>>) =>
        outcome.text = Join("", TextParts(response))

\* C4: when the first response of a send has no tool_use block, history
\* is the history before the send, then the user message with the text
\* passed to send, then the assistant message with the text returned
C4_TextTurnAppendsTwo ==
    (SendReturned /\ Len(model_calls) = 1) =>
        conversation_history =
            history_at_send \o
            << Message("user", Str(send_text)),
               Message("assistant", Str(outcome.text)) >>

C4_Witness ==
    /\ SendReturned
    /\ Len(model_calls) = 1
    /\ history_at_send # <<>>
    /\ Len(conversation_history) = Len(history_at_send) + 2

IsToolUseMessage(m) ==
    /\ m.role = "assistant"
    /\ m.content.kind = "list"
    /\ _has_tool_use(m.content.blocks)

IsToolResultMessage(m, ids) ==
    /\ m.role = "user"
    /\ m.content.kind = "list"
    /\ \A i \in 1..Len(m.content.blocks) :
           m.content.blocks[i].type = "tool_result"
    /\ [i \in 1..Len(m.content.blocks) |->
            m.content.blocks[i].tool_use_id] = ids

\* C5: a send that returns after k tool rounds made k+1 model calls and
\* appended 2k+2 messages: the user text, k pairs (assistant tool-use
\* message, user tool-result message), the final assistant text; the i-th
\* model call received the history up to the results of round i-1
C5_RoundTripSequence ==
    SendReturned =>
        LET k == Len(model_calls) - 1
            n0 == Len(history_at_send)
            h == conversation_history
        IN  /\ k >= 0
            /\ Len(h) = n0 + 2 * k + 2
            /\ SubSeq(h, 1, n0) = history_at_send
            /\ h[n0 + 1] = Message("user", Str(send_text))
            /\ \A j \in 1..k :
                   /\ IsToolUseMessage(h[n0 + 2 * j])
                   /\ IsToolResultMessage(h[n0 + 2 * j + 1],
                          ToolUseIds(h[n0 + 2 * j].content.blocks))
            /\ h[n0 + 2 * k + 2] = Message("assistant", Str(outcome.text))
            /\ \A i \in 1..(k + 1) :
                   model_calls[i].messages = SubSeq(h, 1, n0 + 2 * i - 1)

C5_Witness ==
    /\ SendReturned
    /\ Len(model_calls) = 3
    /\ Len(conversation_history) = Len(history_at_send) + 6

\* C6: a model call that fails ends the send with an error: the step makes
\* no model call and no tool call, and none follows until the next send
C6_ModelFailureReachesCaller ==
    [][ /\ (pc = "model" /\ last_op'.name = "model_fail") =>
               /\ pc' = "idle"
               /\ outcome' = [kind |-> "raised", by |-> "model"]
               /\ calls' = calls
               /\ model_calls' = model_calls
               /\ bridge_calls' = bridge_calls
        /\ (pc = "idle" /\ outcome.kind = "raised") =>
               \/ /\ pc' = "idle"
                  /\ calls' = calls
                  /\ Len(bridge_calls') <= Len(bridge_calls)
               \/ sends' = sends + 1
      ]_vars

C6_Witness ==
    /\ last_op.name = "model_fail"
    /\ pc = "idle"
    /\ outcome.kind = "raised"
    /\ Len(model_calls) = 2
    /\ Len(bridge_calls) >= 1

\* C7: a tool call whose transport fails does not raise into the loop: a
\* result with success = false and an error detail is recorded and the
\* loop goes on
C7_TransportFailureIsAResult ==
    (last_op.name = "tool" /\ ~Last(bridge_calls).transport_ok) =>
        /\ ~Last(bridge_calls).raised
        /\ pc \in {"tools", "model"}
        /\ tool_results # <<>>
        /\ Last(tool_results).content.success = FALSE
        /\ "error" \in DOMAIN Last(tool_results).content

\* C9: reset empties the history, whatever its length, and leaves the user
\* id, the catalog, the transport state and the store as they were
C9_ResetIsPureTruncation ==
    [][ last_op'.name = "reset" =>
            /\ conversation_history' = <<>>
            /\ UNCHANGED <<user_id, mcp_tools, connected, tools_cache,
                           variant, db, file>>
      ]_vars

C9_Witness ==
    /\ last_op.name = "reset"
    /\ last_op.cleared >= 4
    /\ conversation_history = <<>>
    /\ connected
    /\ user_id = "user_002"

\* a ToolUse block recorded in history with user id u in its input
RecordedUnder(u) ==
    \E i \in 1..Len(conversation_history) :
        /\ conversation_history[i].content.kind = "list"
        /\ \E j \in 1..Len(conversation_history[i].content.blocks) :
               LET b == conversation_history[i].content.blocks[j]
               IN  /\ b.type = "tool_use"
                   /\ "user_id" \in DOMAIN b.input
                   /\ b.input["user_id"] = S(u)

\* C10: switchUser changes the user id and nothing else: history, catalog,
\* transport state and store stay as they were, and no model call or tool
\* call is made
C10_SwitchUserChangesOnlyUserId ==
    [][ last_op'.name = "switch" =>
            /\ UNCHANGED <<conversation_history, mcp_tools, connected,
                           tools_cache, variant, db, file, pc, calls>>
            /\ Len(model_calls') <= Len(model_calls)
            /\ Len(bridge_calls') <= Len(bridge_calls)
      ]_vars

C10_Witness ==
    /\ last_op.name = "switch"
    /\ last_op.from = "user_001"
    /\ user_id = "user_002"
    /\ RecordedUnder("user_001")


\* m holds tool results: its content is a list with a tool_result block
HoldsToolResults(m) ==
    /\ m.content.kind = "list"
    /\ \E j \in 1..Len(m.content.blocks) :
           m.content.blocks[j].type = "tool_result"

\* C12: in every reachable history, a message that holds tool results has
\* role user, holds nothing else, and comes right after an assistant
\* message whose tool_use blocks have exactly the ids the results echo
C12_ToolResultsFollowTheirRequest ==
    \A i \in 1..Len(conversation_history) :
        HoldsToolResults(conversation_history[i]) =>
            /\ i > 1
            /\ IsToolUseMessage(conversation_history[i - 1])
            /\ IsToolResultMessage(conversation_history[i],
                   ToolUseIds(conversation_history[i - 1].content.blocks))

\* a history whose second round of a later turn answered two tool_use
\* blocks at once
C12_Witness ==
    \E i \in 4..Len(conversation_history) :
        /\ HoldsToolResults(conversation_history[i])
        /\ Len(conversation_history[i].content.blocks) = 2
        /\ HoldsToolResults(conversation_history[i - 2])

\* C13: one call at a time.  A step issues at most one tool call and at
\* most one model call; a tool call is issued only inside the tool phase,
\* when no model call is outstanding; and a model call that follows a tool
\* phase is issued only when the result of every tool_use block of the
\* round has been collected and appended to the history it is given
C13_OneCallAtATime ==
    [][ /\ Len(bridge_calls') <= Len(bridge_calls) + 1
        /\ calls' <= calls + 1
        /\ Len(bridge_calls') = Len(bridge_calls) + 1 => pc = "tools"
        /\ calls' = calls + 1 =>
               /\ pc # "model"
               /\ pc' = "model"
               /\ Last(model_calls').messages = conversation_history'
               /\ pc = "tools" =>
                      /\ tool_results' =
                             Last(conversation_history').content.blocks
                      /\ IsToolResultMessage(Last(conversation_history'),
                                             ToolUseIds(response'))
                      /\ [j \in 1..Len(LastRoundCalls') |->
                              LastRoundCalls'[j].tool_use_id] =
                             ToolUseIds(response')
      ]_vars

\* the model has been called again after a round of two tool calls
C13_Witness ==
    /\ last_op.name = "tool"
    /\ pc = "model"
    /\ Len(tool_results) = 2
    /\ Len(model_calls) = 2

\* C16: when a response without tool_use blocks yields empty text (no
\* text block, or text blocks whose concatenation is empty), send returns
\* the fixed apology and appends it as the assistant message
C16_EmptyTextFallsBackToApology ==
    (SendReturned /\ Join("", TextParts(response)) = "") =>
        /\ outcome.text = Apology
        /\ Last(conversation_history) = Message("assistant", Str(Apology))

\* C17: send returns normally only on a model response without tool_use
\* blocks, and it returns on the first such response; a response with a
\* tool_use block always starts another round, however many rounds the
\* send has already made, and a round ends only in the next model call or
\* in an exception
C17_LoopEndsOnlyOnToolFreeResponse ==
    [][ /\ (pc = "model" /\ last_op'.name # "model_fail") =>
               IF ToolUseIds(response') = <<>>
               THEN pc' = "idle" /\ outcome'.kind = "returned"
               ELSE pc' = "tools" /\ outcome'.kind = "pending"
        /\ (outcome'.kind = "returned" /\ outcome.kind # "returned") =>
               (pc = "model" /\ ToolUseIds(response') = <<>>)
        /\ pc = "tools" =>
               \/ pc' \in {"tools", "model"} /\ outcome'.kind = "pending"
               \/ pc' = "idle" /\ outcome' = [kind |-> "raised", by |-> "tool"]
      ]_vars

\* a send returned on the last model call the exploration allows, every
\* earlier response of it having requested tools
C17_Witness ==
    /\ SendReturned
    /\ Len(model_calls) = MaxModelCalls
    /\ Len(bridge_calls) >= MaxModelCalls - 1

\* C18: all tool calls issued during one send, across its tool_use blocks
\* and its rounds, carry the same user_id
C18_OneUserIdPerSend ==
    \A i, j \in 1..Len(bridge_calls) :
        /\ "user_id" \in DOMAIN bridge_calls[i].arguments
        /\ bridge_calls[i].arguments["user_id"] =
               bridge_calls[j].arguments["user_id"]

\* s is an initial segment of t
IsPrefix(s, t) ==
    Len(s) <= Len(t) /\ \A i \in 1..Len(s) : s[i] = t[i]

\* C19: except for reset, no operation removes, reorders or alters a
\* message that was in the history when the operation began: during and
\* after a send, returned or raised, the history the send found is a prefix
\* of the history, and switching the user leaves the history as it is
C19_HistoryGrowsByAppending ==
    [][ /\ (pc = "idle" /\ pc' # "idle") =>
               /\ history_at_send' = conversation_history
               /\ IsPrefix(conversation_history, conversation_history')
        /\ pc # "idle" =>
               /\ history_at_send' = history_at_send
               /\ IsPrefix(history_at_send, conversation_history')
               /\ Len(conversation_history') >= Len(conversation_history)
        /\ last_op'.name \in {"switch", "disconnect"} =>
               conversation_history' = conversation_history
      ]_vars

\* a second send, made after the user was switched, was left by an
\* exception after a round of tool calls
C19_Witness ==
    /\ outcome.kind = "raised"
    /\ Len(history_at_send) >= 2
    /\ Len(conversation_history) >= Len(history_at_send) + 3
    /\ user_id = "user_002"

\* C20: the tool catalog passed to the model is the one the session loaded
\* when it was constructed, in every model call; no send, reset, user
\* switch or tool execution changes the catalog the session holds
C20_CatalogIsFixed ==
    [][ /\ mcp_tools' = mcp_tools
        /\ \A i \in 1..Len(model_calls') :
               model_calls'[i].tools =
                   [given |-> TRUE, tools |-> LoadedTools(variant)]
      ]_vars

\* the second send of a session, made after the user was switched, has
\* executed a tool and called the model again
C20_Witness ==
    /\ sends = 2
    /\ user_id = "user_002"
    /\ Len(bridge_calls) >= 1
    /\ Len(model_calls) = 2
    /\ pc = "model"

\* C24: the assistant message appended for a response with tool_use blocks
\* holds the content the model emitted, and running the tools of the round
\* leaves that message as it was appended
C24_ToolUseBlocksKeptAsEmitted ==
    [][ /\ (pc = "model" /\ pc' = "tools") =>
               Last(conversation_history') =
                   Message("assistant", List(response'))
        /\ pc = "tools" =>
               conversation_history'[Len(conversation_history)] =
                   conversation_history[Len(conversation_history)]
      ]_vars

\* C28: a failing model call rolls nothing back: the history keeps the
\* user message of the send and every message appended before the
\* failure, so it ends with a user-role message, and the next send appends
\* its user message directly after that one
C28_FailedSendIsNotRolledBack ==
    [][ /\ (pc = "model" /\ last_op'.name = "model_fail") =>
               /\ conversation_history' = conversation_history
               /\ Len(conversation_history') > Len(history_at_send)
               /\ conversation_history'[Len(history_at_send) + 1] =
                      Message("user", Str(send_text))
               /\ Last(conversation_history').role = "user"
        /\ (outcome = [kind |-> "raised", by |-> "model"] /\
            last_op'.name = "send") =>
               /\ Last(conversation_history).role = "user"
               /\ conversation_history' =
                      Append(conversation_history,
                             Message("user", Str(send_text')))
      ]_vars

\* a send has been made after a send whose second model call failed: its
\* user message follows the tool results of the failed send
C28_Witness ==
    /\ last_op.name = "send"
    /\ Len(conversation_history) >= 4
    /\ conversation_history[Len(conversation_history)].role = "user"
    /\ conversation_history[Len(conversation_history) - 1].role = "user"
    /\ conversation_history[Len(conversation_history) - 1].content.kind =
           "list"

\* C29: whenever send has returned or raised, every assistant message of
\* the history that holds tool_use blocks is followed at once by a user
\* message holding one tool_result per tool_use block, in block order
C29_NoToolRequestLeftUnanswered ==
    (pc = "idle" /\ outcome.kind \in {"returned", "raised"}) =>
        \A i \in 1..Len(conversation_history) :
            IsToolUseMessage(conversation_history[i]) =>
                /\ i < Len(conversation_history)
                /\ IsToolResultMessage(conversation_history[i + 1],
                       ToolUseIds(conversation_history[i].content.blocks))

---------------------------------------------------------------------------
(* Properties of the switch_user tool (specification SpecSwitch) *)

\* the i-th tool call of the current round was a switch_user that returned
\* success
SwitchSucceeded(i) ==
    /\ i \in 1..Len(bridge_calls)
    /\ i \in 1..Len(tool_results)
    /\ bridge_calls[i].round = Last(bridge_calls).round
    /\ bridge_calls[i].name = "switch_user"
    /\ "success" \in DOMAIN tool_results[i].content
    /\ tool_results[i].content.success

---------------------------------------------------------------------------
(* Properties of the registry (specification SpecRegistry) *)

\* C8: whenever execute_tool has been called with a tool name that is not
\* in the catalog, with any argument mapping, it has returned (not raised)
\* a list of exactly one result whose payload has success = false and a
\* message that names the unknown tool.
C8_UnknownToolIsAResult ==
    (last_op.name = "execute_tool" /\ tool_call.name \notin CatalogNames) =>
        /\ ~tool_reply.raised
        /\ Len(tool_reply.content) = 1
        /\ tool_reply.content[1].type = "text"
        /\ tool_reply.content[1].text.success = FALSE
        /\ tool_reply.content[1].text.message =
               "Unknown tool: " \o tool_call.name

\* an unknown name has been executed with arguments a known tool would
\* have acted on, after the store had been changed by earlier calls
C8_Witness ==
    /\ last_op.name = "execute_tool"
    /\ tool_call.name = "does_not_exist"
    /\ "new_password" \in DOMAIN tool_call.arguments
    /\ tool_reply.content[1].text.message = "Unknown tool: does_not_exist"
    /\ db # DefaultData


\* execute_tool has answered the last call from its else branch
AnsweredUnknownTool ==
    /\ "message" \in DOMAIN tool_reply.content[1].text
    /\ tool_reply.content[1].text.message = "Unknown tool: " \o tool_call.name

\* C36: the names in get_tool_definitions are pairwise distinct, and
\* execute_tool answers "Unknown tool" for exactly the names that are not
\* in the catalog: every catalog name reaches a branch, with any arguments,
\* and no name outside the catalog does
C36_CatalogAndDispatcherAgree ==
    /\ \A i, j \in DOMAIN get_tool_definitions :
           i # j => get_tool_definitions[i].name # get_tool_definitions[j].name
    /\ last_op.name = "execute_tool" =>
           (AnsweredUnknownTool <=> tool_call.name \notin CatalogNames)

C36_Witness ==
    /\ last_op.name = "execute_tool"
    /\ tool_call.name = Last(get_tool_definitions).name
    /\ ~AnsweredUnknownTool
    /\ tool_reply.content[1].text.success
    /\ db # DefaultData

\* the input schema the catalog publishes for tool name
SchemaOf(name) ==
    LET i == CHOOSE i \in DOMAIN get_tool_definitions :
                 get_tool_definitions[i].name = name
    IN  get_tool_definitions[i].inputSchema

\* the fields of arguments that fail the schema of tool name: required
\* and missing, or present with a value of the wrong type
Offending(name, arguments) ==
    {f \in DOMAIN SchemaOf(name) :
        \/ f \notin DOMAIN arguments /\ SchemaOf(name)[f].required
        \/ /\ f \in DOMAIN arguments
           /\ arguments[f].t # SchemaOf(name)[f].type}

\* C15: a call of a registry tool with arguments that fail its schema
\* returns (does not raise) one result with success = false whose error
\* names the offending fields, and leaves the store and its file as they
\* were
C15_ValidationFailureIsAResult ==
    [][ ( /\ last_op'.name = "execute_tool"
          /\ tool_call'.name \in CatalogNames
          /\ Offending(tool_call'.name, tool_call'.arguments) # {} ) =>
            /\ ~tool_reply'.raised
            /\ Len(tool_reply'.content) = 1
            /\ tool_reply'.content[1].text.success = FALSE
            /\ "error" \in DOMAIN tool_reply'.content[1].text
            /\ tool_reply'.content[1].text.error.validation_error =
                   Offending(tool_call'.name, tool_call'.arguments)
            /\ db' = db
            /\ file' = file
      ]_vars

---------------------------------------------------------------------------
(* Properties of the registry called for known and unknown users
   (specification SpecRegistryUsers) *)

\* the tool call that has just returned was made with valid arguments
\* whose user_id names no user of the store
CalledForUnknownUser ==
    /\ last_op.name = "execute_tool"
    /\ tool_call.name \in CatalogNames
    /\ Offending(tool_call.name, tool_call.arguments) = {}
    /\ "user_id" \in DOMAIN tool_call.arguments
    /\ tool_call.arguments["user_id"].v \notin DOMAIN db.users

\* C21: every registry tool called with a user_id that is not in the
\* store returns a result with success = false
C21_UnknownUserIsRefused ==
    CalledForUnknownUser =>
        /\ ~tool_reply.raised
        /\ tool_reply.content[1].text.success = FALSE

---------------------------------------------------------------------------
(* Properties of the registry's failure results (specification SpecDisk) *)

\* C32: an execute_tool call whose result says success = false leaves the
\* store's users, transactions and issues as they were and writes nothing
\* to the data file
C32_FailureLeavesStoreAndFile ==
    [][ (/\ last_op'.name = "execute_tool"
         /\ ~tool_reply'.content[1].text.success)
        => /\ db' = db
           /\ file' = file ]_vars

---------------------------------------------------------------------------
(* Properties of the store (specification SpecStore) *)

\* the step is a call of the registry tool name for user u
ToolCalledFor(name, u) ==
    /\ last_op'.name = "execute_tool"
    /\ tool_call'.name = name
    /\ tool_call'.arguments["user_id"].v = u

\* the step is a call of the store method name for user u
MethodCalledFor(name, u) ==
    /\ last_op'.name = name
    /\ last_op'.uid = u

\* C22: update_address(u, a) on a user of the store returns true and sets
\* the address of u to a, changing no other field of u, no other user and
\* nothing else in the store; on an unknown user it returns false and
\* changes nothing; and no operation other than update_address on u
\* (a restart of the owning process included) changes the address of u
C22_UpdateAddressSetsOnlyTheAddress ==
    [][ /\ \A u \in StoreUsers :
               MethodCalledFor("update_address", u) =>
                   IF u \in DOMAIN db.users
                   THEN /\ last_op'.ret = TRUE
                        /\ db'.users[u].address = last_op'.new_address
                        /\ db' = [db EXCEPT !.users[u].address =
                                                 db'.users[u].address]
                   ELSE /\ last_op'.ret = FALSE
                        /\ db' = db
                        /\ file' = file
        /\ \A u \in DOMAIN db.users :
               ( /\ ~MethodCalledFor("update_address", u)
                 /\ ~ToolCalledFor("update_address", u) ) =>
                   /\ u \in DOMAIN db'.users
                   /\ db'.users[u].address = db.users[u].address
      ]_vars

\* the address set for user_001 has outlived a card deactivation and a
\* restart
C22_Witness ==
    /\ last_op.name = "load_data"
    /\ db.users["user_001"].address = "New Address 123"
    /\ db.users["user_001"].card_status = "deactivated"

\* C23: deactivate_card(u) on a user of the store returns true and leaves
\* the card deactivated, also when it already was; and no store method,
\* registry tool or restart makes a deactivated card active again
C23_DeactivationIsPermanent ==
    [][ \A u \in DOMAIN db.users :
            /\ MethodCalledFor("deactivate_card", u) =>
                   /\ last_op'.ret = TRUE
                   /\ db'.users[u].card_status = "deactivated"
            /\ ToolCalledFor("deactivate_card", u) =>
                   /\ tool_reply'.content[1].text.success = TRUE
                   /\ db'.users[u].card_status = "deactivated"
            /\ db.users[u].card_status = "deactivated" =>
                   /\ u \in DOMAIN db'.users
                   /\ db'.users[u].card_status = "deactivated"
      ]_vars

\* deactivate_card has been called on a card that was deactivated already
C23_Witness ==
    /\ last_op.name = "deactivate_card"
    /\ last_op.uid = "user_001"
    /\ last_op.old = "deactivated"
    /\ last_op.ret = TRUE
    /\ db.users["user_001"].card_status = "deactivated"

\* the stored transactions of user u (none for an unknown user)
StoredTransactions(u) ==
    IF u \in DOMAIN db.transactions THEN db.transactions[u] ELSE <<>>

\* C27: get_recent_transactions(u, limit) returns, for every integer limit,
\* the first min(limit, n) of the n stored transactions of u in stored
\* order, which is nothing when limit is zero or negative and nothing for
\* an unknown user, and never more than limit entries
C27_AtMostLimitTransactions ==
    last_op.name = "get_recent_transactions" =>
        LET n == Len(StoredTransactions(last_op.uid))
            k == IF last_op.limit < 0 THEN 0
                 ELSE IF last_op.limit < n THEN last_op.limit ELSE n
        IN  /\ last_op.ret = SubSeq(StoredTransactions(last_op.uid), 1, k)
            /\ Len(last_op.ret) <= k

\* the store methods and registry tools that only read
ReadOperations ==
    {"get_account_balance", "get_recent_transactions", "get_account_details",
     "switch_user"}

\* C33: get_account_balance, get_recent_transactions, get_account_details
\* and switch_user leave the whole store (and the data file) unchanged,
\* called as store methods or as tools; and no operation changes the
\* account_balance of a user or any list of transactions
C33_ReadsChangeNothing ==
    [][ /\ ( \/ last_op'.name \in ReadOperations
             \/ /\ last_op'.name = "execute_tool"
                /\ tool_call'.name \in ReadOperations )
           => /\ db' = db
              /\ file' = file
        /\ DOMAIN db'.users = DOMAIN db.users
        /\ \A u \in DOMAIN db.users :
               db'.users[u].account_balance = db.users[u].account_balance
        /\ db'.transactions = db.transactions ]_vars

C33_Witness ==
    /\ last_op.name = "get_recent_transactions"
    /\ last_op.uid = "user_001"
    /\ Len(last_op.ret) = 2
    /\ db.users["user_001"].card_status = "deactivated"
    /\ db.users["user_001"].account_balance =
           DefaultData.users["user_001"].account_balance
    /\ db.transactions = DefaultData.transactions

---------------------------------------------------------------------------
(* Properties of the tickets (specification SpecIssues) *)

\* the step is a report_issue, called as a method or as a tool
ReportIssueStep ==
    \/ last_op'.name = "report_issue"
    \/ last_op'.name = "execute_tool" /\ tool_call'.name = "report_issue"

\* C34: in one store the issue ids are pairwise distinct and the k-th
\* issue has the id built from k; the list of issues changes only by
\* report_issue, which appends one issue and leaves the others as they were
C34_IssueIdsFollowPosition ==
    [][ /\ \A k \in 1..Len(db'.issues) :
               db'.issues[k].issue_id = "issue_" \o Fmt03d(k)
        /\ \A j, k \in 1..Len(db'.issues) :
               j # k => db'.issues[j].issue_id # db'.issues[k].issue_id
        /\ IsPrefix(db.issues, db'.issues)
        /\ db'.issues # db.issues =>
               /\ ReportIssueStep
               /\ Len(db'.issues) = Len(db.issues) + 1
        /\ last_op'.name = "report_issue" =>
               /\ Len(db'.issues) = Len(db.issues) + 1
               /\ last_op'.ret = Last(db'.issues).issue_id ]_vars

C34_Witness ==
    /\ Len(db.issues) = MaxReports
    /\ db.issues[1].user_id # db.issues[2].user_id
    /\ db.issues[2].issue_id = "issue_002"
    /\ db.issues[MaxReports].issue_id = "issue_" \o Fmt03d(MaxReports)
    /\ db.users["user_001"].card_status = "deactivated"
    /\ file = db

---------------------------------------------------------------------------
(* Properties of two servers on one file (specification SpecShared) *)

\* the logged calls, up to the i-th, that reported the issue of call c
SameReports(c, i) ==
    { j \in 1..i :
        /\ bridge_calls[j].name = "report_issue"
        /\ bridge_calls[j].success
        /\ bridge_calls[j].arguments = c.arguments }

\* the issues of the file that match call c
FiledReports(c) ==
    { k \in 1..Len(file.issues) :
        /\ file.issues[k].user_id = c.arguments["user_id"].v
        /\ file.issues[k].description = c.arguments["issue_description"].v }

\* the effect of the i-th logged call is in the data file
InFile(i) ==
    LET c == bridge_calls[i]
        u == c.arguments["user_id"].v
    IN  IF c.name = "deactivate_card"
        THEN file.users[u].card_status = "deactivated"
        ELSE IF c.name = "update_address"
        THEN file.users[u].address = c.arguments["new_address"].v
        ELSE IF c.name = "change_password"
        THEN file.users[u].password =
                 "hashed_" \o c.arguments["new_password"].v
        ELSE Cardinality(FiledReports(c)) >= Cardinality(SameReports(c, i))

\* the issue ids in the data file are pairwise distinct
IssueIdsInFileAreDistinct ==
    \A j, k \in 1..Len(file.issues) :
        j # k => file.issues[j].issue_id # file.issues[k].issue_id

\* C35: when two server processes interleave mutating tool calls, every
\* mutation that returned success is in the data file once the calls are
\* over, and the issue ids in the file are pairwise distinct
C35_NoMutationIsLost ==
    /\ \A i \in 1..Len(bridge_calls) : bridge_calls[i].success => InFile(i)
    /\ IssueIdsInFileAreDistinct

---------------------------------------------------------------------------
(* Properties of SyncMCPClient (specification SpecSync) *)

\* C25: list_tools and call_tool send a request only when the last connect
\* completed and disconnect has not been called since; before any
\* connect, after a connect that failed and after disconnect they raise
\* without sending anything
C25_RequestsOnlyWhileConnected ==
    (last_op.name \in {"list_tools", "call_tool"} /\ pc # "idle") =>
        /\ last_op.raised
        /\ ~last_op.requested

---------------------------------------------------------------------------
(* Properties of the callbacks' results (specification SpecParts) *)

\* C26: when the bridge returns a result of one or more parts, the content
\* of the tool_result block is the text of the first part alone, in every
\* session variant
C26_FirstPartIsTheContent ==
    (last_op.name = "bridge_result" /\ Len(tool_reply.content) >= 1) =>
        /\ Len(tool_results) = 1
        /\ tool_results[1].content = tool_reply.content[1].text

\* a result of several parts, the first differing from the others, has
\* been turned into a block
C26_Witness ==
    /\ last_op.name = "bridge_result"
    /\ Len(tool_reply.content) = MaxParts
    /\ tool_reply.content[1].text # tool_reply.content[2].text
    /\ tool_results[1].content = "second"

---------------------------------------------------------------------------
(* Properties of the HTTP transport (specification SpecHTTP) *)

\* C30: for every request that reaches it, the execute endpoint answers
\* 200 with envelope success = true and the text execute_tool returned,
\* also when that text says success = false; and when the response
\* arrives, HTTPMCPClient.call_tool returns that text unchanged
C30_EnvelopeSuccessIsAlwaysTrue ==
    last_op.name = "http_call_tool" =>
        /\ tool_reply.response.status = 200
        /\ tool_reply.response.body.success = TRUE
        /\ tool_reply.response.body.result = tool_reply.inner[1].text
        /\ ~tool_reply.raised
        /\ last_op.transport = "ok" =>
               tool_reply.content = tool_reply.inner[1].text

\* the client has returned the failure text of a tool that changed
\* nothing, after earlier calls had changed the store
C30_Witness ==
    /\ last_op = [name |-> "http_call_tool", transport |-> "ok"]
    /\ tool_call.name = "change_password"
    /\ tool_call.arguments = "user_id" :> S("user_999")
    /\ tool_reply.response.body.success = TRUE
    /\ tool_reply.content.success = FALSE
    /\ db # DefaultData

---------------------------------------------------------------------------
(* Properties of the transport clients (specification SpecCatalog) *)

\* C11: of two successive list_tools calls on a connected client, the
\* first of which returned a catalog, the second returns the same catalog
\* and makes no request to the transport
C11_ListToolsIsIdempotent ==
    \A i \in 1..(Len(listed) - 1) :
        (~listed[i].raised /\ listed[i + 1].connected) =>
            /\ ~listed[i + 1].raised
            /\ listed[i + 1].tools = listed[i].tools
            /\ listed[i + 1].requests = listed[i].requests


---------------------------------------------------------------------------
(* Properties of the stdio transport's owner (specification SpecPipe) *)

\* C14: once the front end has left the scope that owns the transport,
\* whether connect failed at some step or the conversation ended normally
\* or by an exception, neither the stdio context (the server process) nor
\* the client session is still held open
C14_PipeReleasedOnEveryExit ==
    pc = "left" => (pipe.stdio # "entered" /\ pipe.session # "entered")

====
